---- MODULE Spec2Model ----
(***************************************************************************)
(* A model of srfpython's parameterization layer                           *)
(* (srfpython/HerrMet/parameterizers.py) and of the per-node forward       *)
(* operator (srfpython/maupasacq/get_G.py).                                *)
(*                                                                         *)
(* Numbers.  The code computes with numpy float64.  A float is modelled as *)
(* an integer count of grid units (1/Unit) that has at most Prec           *)
(* significant bits; every arithmetic result is rounded to the nearest     *)
(* such number, ties to even, as IEEE-754 does.  Prec and FracBits are     *)
(* smaller than float64's 53 and 1074: the format is the same, the         *)
(* precision is reduced.  Velocities, ratios and densities of the files    *)
(* enumerated here are positive, so no division by zero occurs.            *)
(***************************************************************************)
EXTENDS Integers, Sequences, FiniteSets, TLC

\* ------------------------------------------------------------------ bounds
Prec == 4
FracBits == 3
MaxLayer == 3
MaxPrints == 2
MaxNy == 2
MaxNx == 2
MaxNz == 2
MaxNper == 2
Nworker == 2
MaxRootnames == 2

\* ------------------------------------------------- floating-point numbers
Unit == 2 ^ FracBits

\* n eighths, in grid units
E(n) == n * (Unit \div 8)

Abs(a) == IF a < 0 THEN -a ELSE a

\* the nearest integer to a/b (a >= 0, b > 0), ties to the even one
RoundHalfEven(a, b) ==
    LET q == a \div b
        r == a % b
    IN  IF 2 * r < b THEN q
        ELSE IF 2 * r > b THEN q + 1
        ELSE IF q % 2 = 0 THEN q ELSE q + 1

\* the binary exponent at which a/b has Prec significant bits
RECURSIVE Exponent(_, _, _)
Exponent(a, b, e) == IF a < b * 2 ^ (Prec + e) THEN e ELSE Exponent(a, b, e + 1)

\* the float nearest to the rational a/b (b > 0), in grid units
Fl(a, b) ==
    LET e == Exponent(Abs(a), b, 0)
        n == RoundHalfEven(Abs(a), b * 2 ^ e) * 2 ^ e
    IN  IF a < 0 THEN -n ELSE n

FAdd(x, y) == Fl(x + y, 1)
FSub(x, y) == Fl(x - y, 1)
FMul(x, y) == Fl(x * y, Unit)
FDiv(x, y) == IF y < 0 THEN Fl(-(x * Unit), -y) ELSE Fl(x * Unit, y)

\* the one element of a singleton
The(S) == CHOOSE x \in S : TRUE

\* ------------------------------------------------------------ numpy arrays
Range(s) == {s[i] : i \in DOMAIN s}

\* s[a:b] with Python's 0-based, end-exclusive slice bounds
Slice(s, a, b) == [i \in 1..(b - a) |-> s[a + i]]

\* the positions of the True entries of a boolean array, in increasing order
TrueIdx(mask) ==
    LET T == {i \in DOMAIN mask : mask[i]}
    IN  [j \in 1..Cardinality(T) |->
            CHOOSE i \in T : Cardinality({k \in T : k <= i}) = j]

\* s[mask]
Masked(s, mask) == LET ix == TrueIdx(mask) IN [j \in DOMAIN ix |-> s[ix[j]]]

\* M = s.copy(); M[mask] = m
Scatter(s, mask, m) ==
    [i \in DOMAIN s |->
        IF mask[i] THEN m[Cardinality({k \in 1..i : mask[k]})] ELSE s[i]]

\* s * t and s / t of two arrays, element by element
Times(s, t) == [i \in DOMAIN s |-> FMul(s[i], t[i])]
Over(s, t) == [i \in DOMAIN s |-> FDiv(s[i], t[i])]

\* ---------------------------------------------------------- parameter files
\* The five parameterization tags and the row kinds each lays out, in order.
TYPES == {"mZVSPRRH", "mZVSVPRH", "mZVSPRzRHvp", "mZVSPRzRHz", "mZVSVPvsRHvp"}

Groups(TYPE) ==
    CASE TYPE = "mZVSPRRH" -> <<"-Z", "VS", "PR", "RH">>
      [] TYPE = "mZVSVPRH" -> <<"-Z", "VS", "VP", "RH">>
      [] OTHER -> <<"-Z", "VS">>

\* A key "-Z%d" % i or "VS%d" % i is the pair of its letters and its number.
Key(kind, i) == <<kind, i>>

\* ["%s%d" % (kind, i) for i in range(a, b)]
KeyList(kind, a, b) == [k \in 1..(b - a) |-> Key(kind, a + k - 1)]

RECURSIVE hstack(_)
hstack(ss) == IF ss = <<>> THEN <<>> ELSE Head(ss) \o hstack(Tail(ss))

\* The rows enumerated for a file: which rows are locked (VINF = VSUP) follows a
\* pattern per row kind, and the Vs bounds follow one of three profiles, the
\* third with bounds that are two neighbouring floats.  The depth ranges of
\* successive interfaces overlap.  Every bound is a float.
LockPatterns == {"none", "all", "odd"}
Schemes == {"incr", "lvz", "tight"}

IsLocked(pattern, i) == pattern = "all" \/ (pattern = "odd" /\ i % 2 = 1)

\* <<VINF, VSUP>> of the free row of a kind at layer i, and its locked value
FreeBounds(kind, i, scheme) ==
    CASE kind = "-Z" -> <<E(-(8 * i + 14)), E(-(8 * i + 2))>>
      [] kind = "VS" /\ scheme = "incr" -> <<E(8 + 4 * i), E(12 + 4 * i)>>
      [] kind = "VS" /\ scheme = "lvz" ->
            IF i % 2 = 0 THEN <<E(24), E(28)>> ELSE <<E(8), E(10)>>
      [] kind = "VS" /\ scheme = "tight" -> <<2 ^ Prec, 2 ^ Prec + 2>>
      [] kind = "PR" -> <<E(14), E(16)>>
      [] kind = "VP" -> <<E(32 + 8 * i), E(40 + 8 * i)>>
      [] kind = "RH" -> <<E(16), E(24)>>

LockedValue(kind, i, scheme) ==
    CASE kind = "-Z" -> E(-8 * (i + 1))
      [] kind = "VS" /\ scheme = "incr" -> E(10 + 4 * i)
      [] kind = "VS" /\ scheme = "lvz" -> IF i % 2 = 0 THEN E(26) ELSE E(9)
      [] kind = "VS" /\ scheme = "tight" -> 2 ^ Prec
      [] kind = "PR" -> E(14)
      [] kind = "VP" -> E(36 + 8 * i)
      [] kind = "RH" -> E(20)

RowsOf(kind, n, pattern, scheme) ==
    LET first == IF kind = "-Z" THEN 1 ELSE 0
    IN  [k \in 1..(n - first) |->
            LET i == first + k - 1
                b == IF IsLocked(pattern, i)
                     THEN <<LockedValue(kind, i, scheme), LockedValue(kind, i, scheme)>>
                     ELSE FreeBounds(kind, i, scheme)
            IN  [KEY |-> Key(kind, i), VINF |-> Fl(b[1], 1), VSUP |-> Fl(b[2], 1)]]

\* The Relation expressions a file of each tag declares in its metadata.
RelationMeta(TYPE) ==
    CASE TYPE = "mZVSPRzRHvp" -> [PRz |-> "lambda Z: 1.75 + 0.125 * Z",
                                  RHvp |-> "lambda VP: 1.5 + 0.25 * VP"]
      [] TYPE = "mZVSPRzRHz" -> [PRz |-> "lambda Z: 1.75 + 0.125 * Z",
                                 RHz |-> "lambda Z: 2. + 0.125 * Z"]
      [] TYPE = "mZVSVPvsRHvp" -> [VPvs |-> "lambda VS: 1.75 * VS",
                                   RHvp |-> "lambda VP: 1.5 + 0.25 * VP"]
      [] OTHER -> [x \in {} |-> ""]

\* the file as read: metadata (a dictionary) and the data columns
MakeFile(TYPE, n, pats, scheme) ==
    LET g == Groups(TYPE)
        rows == hstack([k \in DOMAIN g |-> RowsOf(g[k], n, pats[k], scheme)])
    IN  [metadata |-> [NLAYER |-> n, TYPE |-> TYPE] @@ RelationMeta(TYPE),
         data |-> [KEY |-> [r \in DOMAIN rows |-> rows[r].KEY],
                   VINF |-> [r \in DOMAIN rows |-> rows[r].VINF],
                   VSUP |-> [r \in DOMAIN rows |-> rows[r].VSUP]]]

ValidFiles ==
    {MakeFile(TYPE, n, pats, scheme) :
        TYPE \in TYPES, n \in 1..MaxLayer,
        pats \in [1..4 -> LockPatterns], scheme \in Schemes}

\* Files the constructor must refuse: a well-formed file with NLAYER or TYPE
\* removed from its metadata, its second KEY repeating the first, or the bounds
\* of its first free row exchanged, in every combination.
Defects == {"noNLAYER", "noTYPE", "dupKEY", "inverted"}

Without(d, k) == [x \in DOMAIN d \ {k} |-> d[x]]

Damage(F, ds) ==
    LET md1 == IF "noNLAYER" \in ds THEN Without(F.metadata, "NLAYER") ELSE F.metadata
        md2 == IF "noTYPE" \in ds THEN Without(md1, "TYPE") ELSE md1
        key == IF "dupKEY" \in ds
               THEN [F.data.KEY EXCEPT ![2] = F.data.KEY[1]] ELSE F.data.KEY
        r == CHOOSE i \in DOMAIN F.data.VINF :
                /\ F.data.VINF[i] < F.data.VSUP[i]
                /\ \A j \in 1..(i - 1) : F.data.VINF[j] = F.data.VSUP[j]
        inf == IF "inverted" \in ds
               THEN [F.data.VINF EXCEPT ![r] = F.data.VSUP[r]] ELSE F.data.VINF
        sup == IF "inverted" \in ds
               THEN [F.data.VSUP EXCEPT ![r] = F.data.VINF[r]] ELSE F.data.VSUP
    IN  [metadata |-> md2, data |-> [KEY |-> key, VINF |-> inf, VSUP |-> sup]]

BaseFiles == {MakeFile(TYPE, 2, [k \in 1..4 |-> "none"], "incr") : TYPE \in TYPES}

\* Files of TYPE mZVSVPvsRHvp that differ by their two Relations: each may be
\* sound, return a float out of range or on its limit, return an integer, or
\* raise; one sound RHvp decreases with VP.
\* The file of two layers of TYPE mZVSPRRH with -Z1 in [-1.5, -0.5], VS0 and VS1
\* in [1.0, 2.0], PR0 = PR1 = 1.8 and RH0 = RH1 = 2.2, each bound the float
\* nearest to its decimal
ScenarioFile ==
    LET PR == Fl(9 * Unit, 5)
        RH == Fl(11 * Unit, 5)
    IN  [metadata |-> [NLAYER |-> 2, TYPE |-> "mZVSPRRH"],
         data |-> [KEY |-> <<Key("-Z", 1), Key("VS", 0), Key("VS", 1), Key("PR", 0),
                            Key("PR", 1), Key("RH", 0), Key("RH", 1)>>,
                   VINF |-> <<E(-12), E(8), E(8), PR, PR, RH, RH>>,
                   VSUP |-> <<E(-4), E(16), E(16), PR, PR, RH, RH>>]]

RelationFiles ==
    {[metadata |-> [VPvs |-> v, RHvp |-> r, NLAYER |-> 2, TYPE |-> "mZVSVPvsRHvp"],
      data |-> MakeFile("mZVSVPvsRHvp", 2, [k \in 1..4 |-> "none"], "incr").data] :
        v \in {"lambda VS: 1.75 * VS", "lambda VS: 0. * VS", "lambda VS: 2",
               "lambda VS: 1. / 0."},
        r \in {"lambda VP: 1.5 + 0.25 * VP", "lambda VP: 1. * VP",
               "lambda VP: 0.5 * VP", "lambda VP: 2", "lambda VP: 1. / 0.",
               "lambda VP: 3. - 0.25 * VP"}}

\* the description with every VS row written around the velocity of the first
\* layer, vs[0]
get_parameterizers_first(ztop, vs) ==
    LET half == E(4)
        text(v) == <<v, Unit>>
        float(t) == Fl(t[1] * Unit, t[2])
        nlayer == Len(ztop)
    IN  [metadata |->
            [NLAYER |-> nlayer, TYPE |-> "mZVSVPvsRHvp",
             VPvs |-> "lambda VS: 0.9409+2.0947*VS-0.8206*VS**2+0.2683*VS**3-0.0251*VS**4",
             RHvp |-> "lambda VP: 1.6612*VP-0.4721*VP**2+0.0671*VP**3-0.0043*VP**4+0.000106*VP**5"],
         data |->
            [KEY |-> KeyList("-Z", 1, nlayer) \o KeyList("VS", 0, nlayer),
             VINF |-> [k \in 1..(nlayer - 1) |-> float(text(-ztop[k + 1]))]
                        \o [k \in 1..nlayer |-> float(text(FSub(vs[1], half)))],
             VSUP |-> [k \in 1..(nlayer - 1) |-> float(text(-ztop[k + 1]))]
                        \o [k \in 1..nlayer |-> float(text(FAdd(vs[1], half)))]]]

\* get_parameterizers: the description of one node, as load_paramfile reads it.
\* The header declares len(ztop) layers and the two polynomial Relations, one
\* row "-Z{i}" per interface below the surface holds -ztop[i] twice, and
\* job_handler adds one row "VS{i}" per layer around the prior velocity.  A
\* number is written as the decimal text of its value, the pair of its count of
\* grid steps and the steps per unit, and read back as the nearest float.  The
\* half-width 0.01 of the source is many float steps wide next to a velocity
\* of a few km/s; the floats kept here have Prec bits, so the half-width is
\* taken as 0.5, two steps of the floats between 2 and 4.
get_parameterizers(ztop, vs) ==
    LET half == E(4)
        text(v) == <<v, Unit>>
        float(t) == Fl(t[1] * Unit, t[2])
        nlayer == Len(ztop)
    IN  [metadata |->
            [NLAYER |-> nlayer, TYPE |-> "mZVSVPvsRHvp",
             VPvs |-> "lambda VS: 0.9409+2.0947*VS-0.8206*VS**2+0.2683*VS**3-0.0251*VS**4",
             RHvp |-> "lambda VP: 1.6612*VP-0.4721*VP**2+0.0671*VP**3-0.0043*VP**4+0.000106*VP**5"],
         data |->
            [KEY |-> KeyList("-Z", 1, nlayer) \o KeyList("VS", 0, nlayer),
             VINF |-> [k \in 1..(nlayer - 1) |-> float(text(-ztop[k + 1]))]
                        \o [k \in 1..nlayer |-> float(text(FSub(vs[k], half)))],
             VSUP |-> [k \in 1..(nlayer - 1) |-> float(text(-ztop[k + 1]))]
                        \o [k \in 1..nlayer |-> float(text(FAdd(vs[k], half)))]]]

\* job_generator: the grid of interface depths 0, 1, 2, ... km of up to MaxNz
\* layers, with the prior velocities Mprior[iy, jx, :] of a node drawn from
\* 2.0, 3.0 and the last float below 4.0
PriorJobs ==
    {<<ztop, vs>> : ztop \in {[i \in 1..n |-> E(8 * (i - 1))] : n \in 1..MaxNz},
                    vs \in UNION {[1..n -> {E(16), E(24), 2 ^ (Prec + 1) - 2}] : n \in 1..MaxNz}}

PriorFiles ==
    {get_parameterizers(j[1], j[2]) : j \in {k \in PriorJobs : Len(k[1]) = Len(k[2])}}

DefectiveFiles == {Damage(F, ds) : F \in BaseFiles, ds \in (SUBSET Defects) \ {{}}}

\* ------------------------------------------------------------------- state
VARIABLES
    A,        \* the parameter file handed to the constructor
    cls,      \* the Parameterizer subclass being instantiated (named by its tag)
    pc,       \* how far the constructor has run
    exc,      \* the exception that left the constructor, <<>> when none
    self,     \* the attributes of the object, by name
    stdout,   \* the lines printed so far
    last      \* the last method call on the built object and what it returned

pvars == <<A, cls, pc, exc, self, stdout, last>>

None == "None"
NoCall == [op |-> "none"]

\* get_G.py: the arrays the module loads, the ForwardOperator, and the method
\* of it that is running
VARIABLES
    ny, nx, nz, nper,   \* nynxnz.npy and nynxnper.npy
    loaded,   \* the number of elements of each of the other arrays loaded
    gpc,      \* where the forward operator is: "start", "init", "ready", "call", "fd"
    forwardop,  \* the attributes of the ForwardOperator
    Mglobal,  \* the argument M of the method that is running or has returned
    ma,       \* the MapSync of the running method
    theorys,  \* the local list of __init__
    Data,     \* the local list of __call__
    rows, cols, dats,   \* the local lists of frechet_derivatives
    ret,      \* the last method of the ForwardOperator and what it returned
    seen      \* history: the first call that ended, and whether another one followed

gvars ==
    <<ny, nx, nz, nper, loaded, gpc, forwardop, Mglobal, ma, theorys, Data, rows, cols, dats,
      ret, seen>>

\* HerrMet --manage: the command line, the disk, and the run of manage()
VARIABLES
    argv,       \* the options: the rootnames under "main", the arguments of each key
    fs,         \* under each rootname: "none", "dir" (no run file) or "run"
    mpc,        \* where manage() is
    rootnames,  \* the local list rootnames; runfiles holds the run file of each
    nfile,      \* the number of turns the running loop has made
    mlog        \* what has been done to the run files so far, in order

mvars == <<argv, fs, mpc, rootnames, nfile, mlog>>

vars == <<pvars, gvars, mvars>>

\* no ForwardOperator is in play
GIdle ==
    /\ ny = 1 /\ nx = 1 /\ nz = 1 /\ nper = 1 /\ loaded = <<>>
    /\ gpc = "idle"
    /\ forwardop = <<>> /\ Mglobal = <<>> /\ ma = <<>>
    /\ theorys = <<>> /\ Data = <<>>
    /\ rows = <<>> /\ cols = <<>> /\ dats = <<>>
    /\ ret = NoCall /\ seen = <<>>

\* manage() is not in play
MIdle ==
    /\ argv = <<>> /\ fs = <<>> /\ mpc = "idle"
    /\ rootnames = <<>> /\ nfile = 0 /\ mlog = <<>>

\* no Parameterizer is in play
PIdle ==
    /\ A = <<>> /\ cls = None /\ pc = "idle" /\ exc = <<>>
    /\ self = <<>> /\ stdout = <<>> /\ last = NoCall

\* ------------------------------------------------------------- constructor
ValueError(msg) == <<"ValueError", msg>>
AssertionError == <<"AssertionError", "">>

\* the file check without its last test, VINF <= VSUP
check_parameter_file_unbounded(F) ==
    IF ~("NLAYER" \in DOMAIN F.metadata)
    THEN ValueError("NLAYER not found in file metadata")
    ELSE IF ~("TYPE" \in DOMAIN F.metadata)
    THEN ValueError("TYPE not found in file metadata")
    ELSE IF ~(Len(F.data.KEY) = Cardinality(Range(F.data.KEY)))
    THEN ValueError("there are repeated entries in column KEYS")
    ELSE <<>>

\* check_parameter_file(A): the exception it raises, <<>> when it returns
check_parameter_file(F) ==
    IF ~("NLAYER" \in DOMAIN F.metadata)
    THEN ValueError("NLAYER not found in file metadata")
    ELSE IF ~("TYPE" \in DOMAIN F.metadata)
    THEN ValueError("TYPE not found in file metadata")
    ELSE IF ~(Len(F.data.KEY) = Cardinality(Range(F.data.KEY)))
    THEN ValueError("there are repeated entries in column KEYS")
    ELSE IF \E r \in DOMAIN F.data.VINF : F.data.VINF[r] > F.data.VSUP[r]
    THEN ValueError("VSUP cannot be lower than VINF")
    ELSE <<>>

\* default offsets for the Frechet derivatives, in thousandths
dz == 1
dvp == 10
dvs == 10
dpr == 10
drh == 10

\* Parameterizer.__init__ after the file check: every attribute exists, unset
BaseAttributes ==
    [NLAYER |-> None, MDEFAULT |-> None, IDXNOTLOCK |-> None, MINF |-> None,
     MSUP |-> None, MMEAN |-> None, MSTD |-> None,
     dz |-> dz, dvp |-> dvp, dvs |-> dvs, dpr |-> dpr, drh |-> drh]

\* the TYPE assertion compiled away
TypeAssertion_skipped(c, F) == TRUE

\* assert A.metadata['TYPE'] == "<tag of the class>"
TypeAssertion(c, F) == F.metadata.TYPE = c

\* the assertion with VINF < VSUP
BoundsAssertion_strict(F) == \A r \in DOMAIN F.data.VINF : F.data.VINF[r] < F.data.VSUP[r]

\* assert np.all(A.data['VINF'] <= A.data['VSUP'])
BoundsAssertion(F) == \A r \in DOMAIN F.data.VINF : F.data.VINF[r] <= F.data.VSUP[r]

\* if np.all(VINF == VSUP): print("Warning : all parameters are locked")
LockWarning(F) ==
    IF \A r \in DOMAIN F.data.VINF : F.data.VINF[r] = F.data.VSUP[r]
    THEN <<"Warning : all parameters are locked">> ELSE <<>>

\* the attributes with the mask taken as VINF <= VSUP
FileAttributes_unlocked(F) ==
    LET VINF == F.data.VINF
        VSUP == F.data.VSUP
        IDXNOTLOCK == [r \in DOMAIN VINF |-> VINF[r] <= VSUP[r]]
        MDEFAULT == [r \in DOMAIN VINF |-> FMul(E(4), FAdd(VINF[r], VSUP[r]))]
    IN  [NLAYER |-> F.metadata.NLAYER,
         IDXNOTLOCK |-> IDXNOTLOCK,
         MDEFAULT |-> MDEFAULT,
         MMEAN |-> Masked(MDEFAULT, IDXNOTLOCK),
         MINF |-> Masked(VINF, IDXNOTLOCK),
         MSUP |-> Masked(VSUP, IDXNOTLOCK),
         MSTD |-> Masked([r \in DOMAIN VINF |-> FMul(E(4), FSub(VSUP[r], VINF[r]))],
                         IDXNOTLOCK)]

\* the attributes every subclass derives from the file's columns
FileAttributes(F) ==
    LET VINF == F.data.VINF
        VSUP == F.data.VSUP
        IDXNOTLOCK == [r \in DOMAIN VINF |-> VINF[r] < VSUP[r]]
        MDEFAULT == [r \in DOMAIN VINF |-> FMul(E(4), FAdd(VINF[r], VSUP[r]))]
    IN  [NLAYER |-> F.metadata.NLAYER,
         IDXNOTLOCK |-> IDXNOTLOCK,
         MDEFAULT |-> MDEFAULT,
         MMEAN |-> Masked(MDEFAULT, IDXNOTLOCK),
         MINF |-> Masked(VINF, IDXNOTLOCK),
         MSUP |-> Masked(VSUP, IDXNOTLOCK),
         MSTD |-> Masked([r \in DOMAIN VINF |-> FMul(E(4), FSub(VSUP[r], VINF[r]))],
                         IDXNOTLOCK)]

\* the Relation attributes of the three classes that derive Vp and density
RelationAttributes(c, F) ==
    CASE c = "mZVSPRzRHvp" ->
            [PRzName |-> "VP/VS=f(Z)", RHvpName |-> "RH=f(VP)",
             PRz |-> F.metadata.PRz, RHvp |-> F.metadata.RHvp]
      [] c = "mZVSPRzRHz" ->
            [PRzName |-> "VP/VS=f(Z)", RHzName |-> "RH=f(Z)",
             PRz |-> F.metadata.PRz, RHz |-> F.metadata.RHz]
      [] c = "mZVSVPvsRHvp" ->
            [VPvsName |-> "VP=f(VS)", RHvpName |-> "RH=f(VP)",
             VPvs |-> F.metadata.VPvs, RHvp |-> F.metadata.RHvp]
      [] OTHER -> [x \in {} |-> ""]

\* x**k: the product of k factors, each product rounded
RECURSIVE Power(_, _)
Power(x, k) ==
    IF k = 0 THEN Unit ELSE The({FMul(p, q) : p \in {Power(x, k - 1)}, q \in {x}})

\* c[1] + c[2]*x + ... + c[n]*x**(n-1), the terms added from left to right; a
\* coefficient c[k] / scale is the float nearest to that decimal, and a term
\* that is subtracted is the term of the opposite coefficient, added
RECURSIVE Polynomial(_, _, _, _)
Polynomial(c, scale, x, n) ==
    IF n = 0 THEN 0
    ELSE The({FAdd(s, FMul(a, p)) : s \in {Polynomial(c, scale, x, n - 1)},
                                    a \in {Fl(c[n] * Unit, scale)},
                                    p \in {Power(x, n - 1)}})

\* Relation.__call__ on one number: whether the expression raises, the text of
\* the exception, whether what it returns is a float, and what it returns
RelationRaises(expr) == expr \in {"lambda VS: 1. / 0.", "lambda VP: 1. / 0."}

RelationReturnsFloat(expr) == expr \notin {"lambda VS: 2", "lambda VP: 2"}

RelationCall(expr, x) ==
    CASE expr = "lambda Z: 1.75 + 0.125 * Z" -> FAdd(E(14), FMul(E(1), x))
      [] expr = "lambda Z: 2. + 0.125 * Z" -> FAdd(E(16), FMul(E(1), x))
      [] expr = "lambda VP: 1.5 + 0.25 * VP" -> FAdd(E(12), FMul(E(2), x))
      [] expr = "lambda VP: 1. * VP" -> FMul(E(8), x)
      [] expr = "lambda VP: 0.5 * VP" -> FMul(E(4), x)
      [] expr = "lambda VP: 2" -> E(16)
      [] expr = "lambda VP: 3. - 0.25 * VP" -> FSub(E(24), FMul(E(2), x))
      [] expr = "lambda VS: 1.75 * VS" -> FMul(E(14), x)
      [] expr = "lambda VS: 0. * VS" -> FMul(E(0), x)
      [] expr = "lambda VS: 2" -> E(16)
      [] expr = "lambda VS: 0.9409+2.0947*VS-0.8206*VS**2+0.2683*VS**3-0.0251*VS**4" ->
            Polynomial(<<9409, 20947, -8206, 2683, -251>>, 10000, x, 5)
      [] expr = "lambda VP: 1.6612*VP-0.4721*VP**2+0.0671*VP**3-0.0043*VP**4+0.000106*VP**5" ->
            Polynomial(<<0, 1661200, -472100, 67100, -4300, 106>>, 1000000, x, 6)

\* the body of a try block of mZVSVPvsRHvp.__init__: the text of the exception
\* it raises, <<>> when it raises none
TryVPvs(expr) ==
    IF RelationRaises(expr) THEN <<"float division by zero">>
    ELSE IF ~RelationReturnsFloat(expr)
    THEN <<"VP=f(VS) must return a float (got {})", "int">>
    ELSE IF ~(RelationCall(expr, E(8)) > 0)
    THEN <<"VP=f(VS) must return positive numbers">>
    ELSE <<>>

\* the second block with the test of the first, rh > 0
TryRHvp_positive(expr) ==
    IF RelationRaises(expr) THEN <<"float division by zero">>
    ELSE IF ~RelationReturnsFloat(expr)
    THEN <<"RH=f(VP) must return a float (got {})", "int">>
    ELSE IF ~(RelationCall(expr, E(8)) > 0)
    THEN <<"RH=f(VP) must return numbers >= 1">>
    ELSE <<>>

TryRHvp(expr) ==
    IF RelationRaises(expr) THEN <<"float division by zero">>
    ELSE IF ~RelationReturnsFloat(expr)
    THEN <<"RH=f(VP) must return a float (got {})", "int">>
    ELSE IF ~(RelationCall(expr, E(8)) >= E(8))
    THEN <<"RH=f(VP) must return numbers >= 1">>
    ELSE <<>>

\* the two checks of mZVSVPvsRHvp on its Relations at the reference input 1.0
RelationChecks(c, F) ==
    IF c # "mZVSVPvsRHvp" THEN <<>>
    ELSE IF TryVPvs(F.metadata.VPvs) # <<>>
    THEN <<"ValueError", "could not execute VP=f(VS), ", TryVPvs(F.metadata.VPvs)>>
    ELSE IF TryRHvp(F.metadata.RHvp) # <<>>
    THEN <<"ValueError", "could not execute RH=f(VP), ", TryRHvp(F.metadata.RHvp)>>
    ELSE <<>>

\* ------------------------------------------------------ depthmodel1D
depthmodel1D(ztop, values) == [z |-> ztop, values |-> values]

\* depthmodel1D.interp(z, interpmethod="stairs"): at each depth the value of the
\* layer that holds it, the deepest layer whose top is not below the depth
interp(dm, z) ==
    [k \in DOMAIN z |->
        LET L == {i \in DOMAIN dm.z : dm.z[i] <= z[k]}
            top == CHOOSE i \in L : \A j \in L : j <= i
        IN  dm.values[top]]

\* np.sort(np.unique(...)) of the values of an array
SortedUnique(s) ==
    LET S == Range(s)
    IN  [j \in 1..Cardinality(S) |->
            CHOOSE x \in S : Cardinality({y \in S : y <= x}) = j]

\* np.min and np.max of np.concatenate(([v1], [v2]), axis=0) along axis 0
npmin(v1, v2) == [i \in DOMAIN v1 |-> IF v1[i] <= v2[i] THEN v1[i] ELSE v2[i]]
npmax(v1, v2) == [i \in DOMAIN v1 |-> IF v1[i] >= v2[i] THEN v1[i] ELSE v2[i]]

\* the local function f of boundaries(), with which = np.min
fmin(z, Zinf, Zsup, V) ==
    depthmodel1D(z, npmin(interp(depthmodel1D(Zinf, V), z),
                          interp(depthmodel1D(Zsup, V), z)))

\* the local function f of boundaries(), with which = np.max
fmax(z, Zinf, Zsup, V) ==
    depthmodel1D(z, npmax(interp(depthmodel1D(Zinf, V), z),
                          interp(depthmodel1D(Zsup, V), z)))

\* ------------------------------------------------------------- the methods
Model(ZTOP, VP, VS, RH) == [ZTOP |-> ZTOP, VP |-> VP, VS |-> VS, RH |-> RH]

\* -1.0 * a
Negated(a) == [i \in DOMAIN a |-> FMul(E(-8), a[i])]

\* M = self.MDEFAULT.copy(); M[self.IDXNOTLOCK] = m
FullArray(o, m) == Scatter(o.MDEFAULT, o.IDXNOTLOCK, m)

\* ZMID = np.concatenate((0.5 * (ZTOP[1:] + ZTOP[:-1]), [1.5 * ZTOP[-1]]))
ZMID(ZTOP) ==
    [i \in 1..(Len(ZTOP) - 1) |-> FMul(E(4), FAdd(ZTOP[i + 1], ZTOP[i]))]
        \o <<FMul(E(12), ZTOP[Len(ZTOP)])>>

\* ---- Parameterizer_mZVSPRRH
\* the keys of every row, locked or not
keys_mZVSPRRH_unmasked(o) ==
    hstack(<<KeyList("-Z", 1, o.NLAYER), KeyList("VS", 0, o.NLAYER),
             KeyList("PR", 0, o.NLAYER), KeyList("RH", 0, o.NLAYER)>>)

keys_mZVSPRRH(o) ==
    Masked(hstack(<<KeyList("-Z", 1, o.NLAYER), KeyList("VS", 0, o.NLAYER),
                    KeyList("PR", 0, o.NLAYER), KeyList("RH", 0, o.NLAYER)>>),
           o.IDXNOTLOCK)

frechet_deltas_mZVSPRRH(o) ==
    hstack(<<[k \in 1..(o.NLAYER - 1) |-> o.dz], [k \in 1..o.NLAYER |-> o.dvs],
             [k \in 1..o.NLAYER |-> o.dpr], [k \in 1..o.NLAYER |-> o.drh]>>)

call_mZVSPRRH(o, ZTOP, VP, VS, RH) ==
    Masked(Negated(Tail(ZTOP)) \o VS \o Over(VP, VS) \o RH, o.IDXNOTLOCK)

\* inv with VP taken at the upper bound of VS: PR * MSUP
inv_mZVSPRRH_upper(o, m) ==
    LET M == FullArray(o, m)
        nlayer == o.NLAYER
        ZTOP == <<0>> \o Negated(Slice(M, 0, 1 * nlayer - 1))
        VS == Slice(M, 1 * nlayer - 1, 2 * nlayer - 1)
        PR == Slice(M, 2 * nlayer - 1, 3 * nlayer - 1)
        RH == Slice(M, 3 * nlayer - 1, 4 * nlayer - 1)
        VP == Times(PR, Slice(FullArray(o, o.MSUP), 1 * nlayer - 1, 2 * nlayer - 1))
    IN  Model(ZTOP, VP, VS, RH)

inv_mZVSPRRH(o, m) ==
    LET M == FullArray(o, m)
        nlayer == o.NLAYER
        ZTOP == <<0>> \o Negated(Slice(M, 0, 1 * nlayer - 1))
        VS == Slice(M, 1 * nlayer - 1, 2 * nlayer - 1)
        PR == Slice(M, 2 * nlayer - 1, 3 * nlayer - 1)
        RH == Slice(M, 3 * nlayer - 1, 4 * nlayer - 1)
        VP == Times(PR, VS)
    IN  Model(ZTOP, VP, VS, RH)

boundaries_mZVSPRRH_on(z, lo, hi) ==
    LET Ztopsup == lo.ZTOP
        Ztopinf == hi.ZTOP
        PRlow == Over(lo.VP, lo.VS)
        PRhgh == Over(hi.VP, hi.VS)
        prlow == fmin(z, Ztopinf, Ztopsup, PRlow)
        prhgh == fmax(z, Ztopinf, Ztopsup, PRhgh)
        vslow == fmin(z, Ztopinf, Ztopsup, lo.VS)
        vshgh == fmax(z, Ztopinf, Ztopsup, hi.VS)
        rhlow == fmin(z, Ztopinf, Ztopsup, lo.RH)
        rhhgh == fmax(z, Ztopinf, Ztopsup, hi.RH)
        vplow == depthmodel1D(z, Times(prlow.values, vslow.values))
        vphgh == depthmodel1D(z, Times(prhgh.values, vshgh.values))
    IN  [vplow |-> vplow, vphgh |-> vphgh, vslow |-> vslow, vshgh |-> vshgh,
         rhlow |-> rhlow, rhhgh |-> rhhgh, prlow |-> prlow, prhgh |-> prhgh]

boundaries_mZVSPRRH(o) ==
    The(UNION {UNION {{boundaries_mZVSPRRH_on(z, lo, hi) :
                          z \in {SortedUnique(hi.ZTOP \o lo.ZTOP)}} :
                      hi \in {inv_mZVSPRRH(o, o.MSUP)}} :
               lo \in {inv_mZVSPRRH(o, o.MINF)}})

\* ---- Parameterizer_mZVSVPRH
keys_mZVSVPRH(o) ==
    Masked(KeyList("-Z", 1, o.NLAYER) \o KeyList("VS", 0, o.NLAYER)
               \o KeyList("VP", 0, o.NLAYER) \o KeyList("RH", 0, o.NLAYER),
           o.IDXNOTLOCK)

frechet_deltas_mZVSVPRH(o) ==
    hstack(<<[k \in 1..(o.NLAYER - 1) |-> o.dz], [k \in 1..o.NLAYER |-> o.dvs],
             [k \in 1..o.NLAYER |-> o.dvp], [k \in 1..o.NLAYER |-> o.drh]>>)

\* the same with VS and VP exchanged in the output
call_mZVSVPRH_exchanged(o, ZTOP, VP, VS, RH) ==
    Masked(Negated(Tail(ZTOP)) \o VP \o VS \o RH, o.IDXNOTLOCK)

call_mZVSVPRH(o, ZTOP, VP, VS, RH) ==
    Masked(Negated(Tail(ZTOP)) \o VS \o VP \o RH, o.IDXNOTLOCK)

inv_mZVSVPRH(o, m) ==
    LET M == FullArray(o, m)
        nlayer == o.NLAYER
        ZTOP == <<0>> \o Negated(Slice(M, 0, 1 * nlayer - 1))
        VS == Slice(M, 1 * nlayer - 1, 2 * nlayer - 1)
        VP == Slice(M, 2 * nlayer - 1, 3 * nlayer - 1)
        RH == Slice(M, 3 * nlayer - 1, 4 * nlayer - 1)
    IN  Model(ZTOP, VP, VS, RH)

\* ---- Parameterizer_mZVSPRzRHvp
keys_mZVSPRzRHvp(o) ==
    Masked(KeyList("-Z", 1, o.NLAYER) \o KeyList("VS", 0, o.NLAYER), o.IDXNOTLOCK)

frechet_deltas_mZVSPRzRHvp(o) ==
    hstack(<<[k \in 1..(o.NLAYER - 1) |-> o.dz], [k \in 1..o.NLAYER |-> o.dvs]>>)

call_mZVSPRzRHvp(o, ZTOP, VP, VS, RH) ==
    Masked(Negated(Tail(ZTOP)) \o VS, o.IDXNOTLOCK)

inv_mZVSPRzRHvp(o, m) ==
    LET M == FullArray(o, m)
        nlayer == o.NLAYER
        ZTOP == <<0>> \o Negated(Slice(M, 0, 1 * nlayer - 1))
        VS == Slice(M, 1 * nlayer - 1, 2 * nlayer - 1)
        zmid == ZMID(ZTOP)
        VP == [i \in DOMAIN VS |-> FMul(VS[i], RelationCall(o.PRz, zmid[i]))]
        RH == [i \in DOMAIN VP |-> RelationCall(o.RHvp, VP[i])]
    IN  Model(ZTOP, VP, VS, RH)

\* ---- Parameterizer_mZVSPRzRHz
keys_mZVSPRzRHz(o) ==
    Masked(KeyList("-Z", 1, o.NLAYER) \o KeyList("VS", 0, o.NLAYER), o.IDXNOTLOCK)

frechet_deltas_mZVSPRzRHz(o) ==
    hstack(<<[k \in 1..(o.NLAYER - 1) |-> o.dz], [k \in 1..o.NLAYER |-> o.dvs]>>)

call_mZVSPRzRHz(o, ZTOP, VP, VS, RH) ==
    Masked(Negated(Tail(ZTOP)) \o VS, o.IDXNOTLOCK)

inv_mZVSPRzRHz(o, m) ==
    LET M == FullArray(o, m)
        nlayer == o.NLAYER
        ZTOP == <<0>> \o Negated(Slice(M, 0, 1 * nlayer - 1))
        VS == Slice(M, 1 * nlayer - 1, 2 * nlayer - 1)
        zmid == ZMID(ZTOP)
        VP == [i \in DOMAIN VS |-> FMul(VS[i], RelationCall(o.PRz, zmid[i]))]
        RH == [i \in DOMAIN VS |-> RelationCall(o.RHz, zmid[i])]
    IN  Model(ZTOP, VP, VS, RH)

\* ---- Parameterizer_mZVSVPvsRHvp
keys_mZVSVPvsRHvp(o) ==
    Masked(KeyList("-Z", 1, o.NLAYER) \o KeyList("VS", 0, o.NLAYER), o.IDXNOTLOCK)

frechet_deltas_mZVSVPvsRHvp(o) ==
    hstack(<<[k \in 1..(o.NLAYER - 1) |-> o.dz], [k \in 1..o.NLAYER |-> o.dvs]>>)

call_mZVSVPvsRHvp(o, ZTOP, VP, VS, RH) ==
    Masked(Negated(Tail(ZTOP)) \o VS, o.IDXNOTLOCK)

inv_mZVSVPvsRHvp(o, m) ==
    LET M == FullArray(o, m)
        nlayer == o.NLAYER
        ZTOP == <<0>> \o Negated(Slice(M, 0, 1 * nlayer - 1))
        VS == Slice(M, 1 * nlayer - 1, 2 * nlayer - 1)
        VP == [i \in DOMAIN VS |-> RelationCall(o.VPvs, VS[i])]
        RH == [i \in DOMAIN VP |-> RelationCall(o.RHvp, VP[i])]
    IN  Model(ZTOP, VP, VS, RH)

\* Relation.__call__ on an array
RelationMap(expr, a) == [i \in DOMAIN a |-> RelationCall(expr, a[i])]

\* boundaries with the Vp envelopes taken from the opposite Vs envelopes
boundaries_mZVSVPvsRHvp_on_opposite(o, z, lo, hi) ==
    LET Ztopsup == lo.ZTOP
        Ztopinf == hi.ZTOP
        vslow == fmin(z, Ztopinf, Ztopsup, lo.VS)
        vshgh == fmax(z, Ztopinf, Ztopsup, hi.VS)
        vplow == depthmodel1D(z, RelationMap(o.VPvs, vshgh.values))
        vphgh == depthmodel1D(z, RelationMap(o.VPvs, vslow.values))
        prlow == depthmodel1D(z, Over(vplow.values, vslow.values))
        prhgh == depthmodel1D(z, Over(vphgh.values, vshgh.values))
        rhlow == depthmodel1D(z, RelationMap(o.RHvp, vplow.values))
        rhhgh == depthmodel1D(z, RelationMap(o.RHvp, vphgh.values))
    IN  [vplow |-> vplow, vphgh |-> vphgh, vslow |-> vslow, vshgh |-> vshgh,
         rhlow |-> rhlow, rhhgh |-> rhhgh, prlow |-> prlow, prhgh |-> prhgh]

boundaries_mZVSVPvsRHvp_on(o, z, lo, hi) ==
    LET Ztopsup == lo.ZTOP
        Ztopinf == hi.ZTOP
        vslow == fmin(z, Ztopinf, Ztopsup, lo.VS)
        vshgh == fmax(z, Ztopinf, Ztopsup, hi.VS)
        vplow == depthmodel1D(z, RelationMap(o.VPvs, vslow.values))
        vphgh == depthmodel1D(z, RelationMap(o.VPvs, vshgh.values))
        prlow == depthmodel1D(z, Over(vplow.values, vslow.values))
        prhgh == depthmodel1D(z, Over(vphgh.values, vshgh.values))
        rhlow == depthmodel1D(z, RelationMap(o.RHvp, vplow.values))
        rhhgh == depthmodel1D(z, RelationMap(o.RHvp, vphgh.values))
    IN  [vplow |-> vplow, vphgh |-> vphgh, vslow |-> vslow, vshgh |-> vshgh,
         rhlow |-> rhlow, rhhgh |-> rhhgh, prlow |-> prlow, prhgh |-> prhgh]

boundaries_mZVSVPvsRHvp(o) ==
    The(UNION {UNION {{boundaries_mZVSVPvsRHvp_on(o, z, lo, hi) :
                          z \in {SortedUnique(hi.ZTOP \o lo.ZTOP)}} :
                      hi \in {inv_mZVSVPvsRHvp(o, o.MSUP)}} :
               lo \in {inv_mZVSVPvsRHvp(o, o.MINF)}})

\* ---- dispatch on the class of the object
keys(c, o) ==
    CASE c = "mZVSPRRH" -> keys_mZVSPRRH(o)
      [] c = "mZVSVPRH" -> keys_mZVSVPRH(o)
      [] c = "mZVSPRzRHvp" -> keys_mZVSPRzRHvp(o)
      [] c = "mZVSPRzRHz" -> keys_mZVSPRzRHz(o)
      [] c = "mZVSVPvsRHvp" -> keys_mZVSVPvsRHvp(o)

frechet_deltas(c, o) ==
    CASE c = "mZVSPRRH" -> frechet_deltas_mZVSPRRH(o)
      [] c = "mZVSVPRH" -> frechet_deltas_mZVSVPRH(o)
      [] c = "mZVSPRzRHvp" -> frechet_deltas_mZVSPRzRHvp(o)
      [] c = "mZVSPRzRHz" -> frechet_deltas_mZVSPRzRHz(o)
      [] c = "mZVSVPvsRHvp" -> frechet_deltas_mZVSVPvsRHvp(o)

call(c, o, dm) ==
    CASE c = "mZVSPRRH" -> call_mZVSPRRH(o, dm.ZTOP, dm.VP, dm.VS, dm.RH)
      [] c = "mZVSVPRH" -> call_mZVSVPRH(o, dm.ZTOP, dm.VP, dm.VS, dm.RH)
      [] c = "mZVSPRzRHvp" -> call_mZVSPRzRHvp(o, dm.ZTOP, dm.VP, dm.VS, dm.RH)
      [] c = "mZVSPRzRHz" -> call_mZVSPRzRHz(o, dm.ZTOP, dm.VP, dm.VS, dm.RH)
      [] c = "mZVSVPvsRHvp" -> call_mZVSVPvsRHvp(o, dm.ZTOP, dm.VP, dm.VS, dm.RH)

inv(c, o, m) ==
    CASE c = "mZVSPRRH" -> inv_mZVSPRRH(o, m)
      [] c = "mZVSVPRH" -> inv_mZVSVPRH(o, m)
      [] c = "mZVSPRzRHvp" -> inv_mZVSPRzRHvp(o, m)
      [] c = "mZVSPRzRHz" -> inv_mZVSPRzRHz(o, m)
      [] c = "mZVSVPvsRHvp" -> inv_mZVSVPvsRHvp(o, m)

boundaries_mZVSVPRH_on(z, lo, hi) ==
    LET Ztopsup == lo.ZTOP
        Ztopinf == hi.ZTOP
        vplow == fmin(z, Ztopinf, Ztopsup, lo.VP)
        vphgh == fmax(z, Ztopinf, Ztopsup, hi.VP)
        vslow == fmin(z, Ztopinf, Ztopsup, lo.VS)
        vshgh == fmax(z, Ztopinf, Ztopsup, hi.VS)
        rhlow == fmin(z, Ztopinf, Ztopsup, lo.RH)
        rhhgh == fmax(z, Ztopinf, Ztopsup, hi.RH)
        prlow == depthmodel1D(z, Over(vphgh.values, vslow.values))
        prhgh == depthmodel1D(z, Over(vplow.values, vshgh.values))
    IN  [vplow |-> vplow, vphgh |-> vphgh, vslow |-> vslow, vshgh |-> vshgh,
         rhlow |-> rhlow, rhhgh |-> rhhgh, prlow |-> prlow, prhgh |-> prhgh]

boundaries_mZVSVPRH(o) ==
    The(UNION {UNION {{boundaries_mZVSVPRH_on(z, lo, hi) :
                          z \in {SortedUnique(hi.ZTOP \o lo.ZTOP)}} :
                      hi \in {inv_mZVSVPRH(o, o.MSUP)}} :
               lo \in {inv_mZVSVPRH(o, o.MINF)}})

\* Parameterizer.boundaries, the default the two PRz classes fall back to
Parameterizer_boundaries_on(z, lo, hi) ==
    LET Ztopsup == lo.ZTOP
        Ztopinf == hi.ZTOP
        vplow == fmin(z, Ztopinf, Ztopsup, lo.VP)
        vphgh == fmax(z, Ztopinf, Ztopsup, hi.VP)
        vslow == fmin(z, Ztopinf, Ztopsup, lo.VS)
        vshgh == fmax(z, Ztopinf, Ztopsup, hi.VS)
        rhlow == fmin(z, Ztopinf, Ztopsup, lo.RH)
        rhhgh == fmax(z, Ztopinf, Ztopsup, hi.RH)
        prlow == depthmodel1D(z, Over(vphgh.values, vslow.values))
        prhgh == depthmodel1D(z, Over(vplow.values, vshgh.values))
    IN  [vplow |-> vplow, vphgh |-> vphgh, vslow |-> vslow, vshgh |-> vshgh,
         rhlow |-> rhlow, rhhgh |-> rhhgh, prlow |-> prlow, prhgh |-> prhgh]

Parameterizer_boundaries(c, o) ==
    The(UNION {UNION {{Parameterizer_boundaries_on(z, lo, hi) :
                          z \in {SortedUnique(hi.ZTOP \o lo.ZTOP)}} :
                      hi \in {inv(c, o, o.MSUP)}} :
               lo \in {inv(c, o, o.MINF)}})

boundaries(c, o) ==
    CASE c = "mZVSPRRH" -> boundaries_mZVSPRRH(o)
      [] c = "mZVSVPRH" -> boundaries_mZVSVPRH(o)
      [] c = "mZVSPRzRHvp" -> Parameterizer_boundaries(c, o)
      [] c = "mZVSPRzRHz" -> Parameterizer_boundaries(c, o)
      [] c = "mZVSVPvsRHvp" -> boundaries_mZVSVPvsRHvp(o)

\* what the two PRz classes print before they fall back
BoundariesNotice(c) ==
    CASE c = "mZVSPRzRHvp" ->
            <<"boundaries method not implemented for Parameterizer_mZVSPRzRHvp, using default one">>
      [] c = "mZVSPRzRHz" ->
            <<"boundaries method not implemented for Parameterizer_mZVSPRzRHz, using default one">>
      [] OTHER -> <<>>

\* Parameterizer.meanmodel
meanmodel(c, o) ==
    LET mean == inv(c, o, o.MMEAN)
    IN  [vp |-> depthmodel1D(mean.ZTOP, mean.VP),
         vs |-> depthmodel1D(mean.ZTOP, mean.VS),
         pr |-> depthmodel1D(mean.ZTOP, Over(mean.VP, mean.VS)),
         rh |-> depthmodel1D(mean.ZTOP, mean.RH)]

Raise(e) ==
    /\ pc' = "raised"
    /\ exc' = e

\* Parameterizer.__init__: check_parameter_file(A)
CheckFile ==
    /\ pc = "new"
    /\ IF check_parameter_file(A) # <<>>
       THEN Raise(check_parameter_file(A))
       ELSE pc' = "checked" /\ exc' = exc
    /\ UNCHANGED <<A, cls, self, stdout, last>>
    /\ UNCHANGED <<gvars, mvars>>

\* Parameterizer.__init__: the attributes are created, unset
BaseInit ==
    /\ pc = "checked"
    /\ self' = BaseAttributes
    /\ pc' = "base"
    /\ UNCHANGED <<A, cls, exc, stdout, last>>
    /\ UNCHANGED <<gvars, mvars>>

\* subclass __init__: the TYPE assertion
AssertType ==
    /\ pc = "base"
    /\ IF TypeAssertion(cls, A)
       THEN pc' = "typed" /\ exc' = exc
       ELSE Raise(AssertionError)
    /\ UNCHANGED <<A, cls, self, stdout, last>>
    /\ UNCHANGED <<gvars, mvars>>

\* subclass __init__: everything after the TYPE assertion
SubclassInit ==
    /\ pc = "typed"
    /\ IF ~BoundsAssertion(A)
       THEN Raise(AssertionError) /\ UNCHANGED <<self, stdout>>
       ELSE /\ stdout' = stdout \o LockWarning(A)
            /\ self' = RelationAttributes(cls, A) @@ FileAttributes(A) @@ self
            /\ IF RelationChecks(cls, A) # <<>>
               THEN Raise(RelationChecks(cls, A))
               ELSE pc' = "built" /\ exc' = exc
    /\ UNCHANGED <<A, cls, last>>
    /\ UNCHANGED <<gvars, mvars>>

\* --------------------------------------------- calls on the built object
\* The parameter vectors handed to inv: the bounds, the mean, the vector half
\* way between the mean and the upper bounds, and the vector that takes the
\* lower and the upper bound in turn.
UpperHalf(o) == [i \in DOMAIN o.MMEAN |-> FMul(E(4), FAdd(o.MMEAN[i], o.MSUP[i]))]

Crossed(o) == [i \in DOMAIN o.MMEAN |-> IF i % 2 = 1 THEN o.MINF[i] ELSE o.MSUP[i]]

Vectors(o) == {o.MINF, o.MMEAN, o.MSUP, UpperHalf(o), Crossed(o)}

CallKeys ==
    /\ pc = "built"
    /\ last' = [op |-> "keys", ret |-> keys(cls, self)]
    /\ UNCHANGED <<A, cls, pc, exc, self, stdout>>
    /\ UNCHANGED <<gvars, mvars>>

CallFrechetDeltas ==
    /\ pc = "built"
    /\ last' = [op |-> "frechet_deltas", ret |-> frechet_deltas(cls, self)]
    /\ UNCHANGED <<A, cls, pc, exc, self, stdout>>
    /\ UNCHANGED <<gvars, mvars>>

\* inv without the copy, M = self.MDEFAULT: the values of m are written into
\* the attribute itself
CallInv_inplace ==
    /\ pc = "built"
    /\ \E m \in Vectors(self) :
          /\ last' = [op |-> "inv", m |-> m, ret |-> inv(cls, self, m)]
          /\ self' = [self EXCEPT !.MDEFAULT = FullArray(self, m)]
    /\ UNCHANGED <<A, cls, pc, exc, stdout>>
    /\ UNCHANGED <<gvars, mvars>>

CallInv ==
    /\ pc = "built"
    /\ \E m \in Vectors(self) :
          last' = [op |-> "inv", m |-> m, ret |-> inv(cls, self, m)]
    /\ UNCHANGED <<A, cls, pc, exc, self, stdout>>
    /\ UNCHANGED <<gvars, mvars>>

\* __call__ on the depth model inv has just returned
CallForward ==
    /\ pc = "built"
    /\ last.op = "inv"
    /\ last' = [op |-> "call", m |-> last.m, model |-> last.ret,
                ret |-> call(cls, self, last.ret)]
    /\ UNCHANGED <<A, cls, pc, exc, self, stdout>>
    /\ UNCHANGED <<gvars, mvars>>

CallMeanmodel ==
    /\ pc = "built"
    /\ last' = [op |-> "meanmodel", ret |-> meanmodel(cls, self)]
    /\ UNCHANGED <<A, cls, pc, exc, self, stdout>>
    /\ UNCHANGED <<gvars, mvars>>

CallBoundaries ==
    /\ pc = "built"
    /\ Len(stdout) + Len(BoundariesNotice(cls)) <= MaxPrints
    /\ last' = [op |-> "boundaries", ret |-> boundaries(cls, self)]
    /\ stdout' = stdout \o BoundariesNotice(cls)
    /\ UNCHANGED <<A, cls, pc, exc, self>>
    /\ UNCHANGED <<gvars, mvars>>

PInit ==
    /\ \/ A \in ValidFiles /\ cls = A.metadata.TYPE
       \/ A \in BaseFiles \cup DefectiveFiles /\ cls \in TYPES
       \/ A \in RelationFiles \cup {ScenarioFile} \cup PriorFiles
          /\ cls = A.metadata.TYPE
    /\ pc = "new"
    /\ exc = <<>>
    /\ self = [x \in {} |-> None]
    /\ stdout = <<>>
    /\ last = NoCall
    /\ GIdle /\ MIdle

PNext ==
    \/ CheckFile
    \/ BaseInit
    \/ AssertType
    \/ SubclassInit
    \/ CallKeys
    \/ CallFrechetDeltas
    \/ CallInv
    \/ CallForward
    \/ CallMeanmodel
    \/ CallBoundaries

Spec == PInit /\ [][PNext]_vars

\* ------------------------------------------------- the forward operator
\* parameterizer_strings.npy and datacoder_strings.npy: one string per node
\* The n-th string is the one get_parameterizers and get_datacoders made in the
\* n-th turn of their loops over iy, then jx: it holds the row of that cell.
parameterizer_strings ==
    [n \in 1..loaded.parameterizer_strings |->
        <<"parameterizer", (n - 1) \div nx, (n - 1) % nx>>]
datacoder_strings ==
    [n \in 1..loaded.datacoder_strings |-> <<"datacoder", (n - 1) \div nx, (n - 1) % nx>>]

\* the lengths of Mprior.npy, parameterizer_strings.npy, datacoder_strings.npy,
\* periods.npy and ztop.npy that agree with ny, nx, nz and nper
Consistent ==
    [Mprior |-> ny * nx * nz, parameterizer_strings |-> ny * nx,
     datacoder_strings |-> ny * nx, periods |-> nper, ztop |-> nz]

\* the same with one array an element longer or shorter
Inconsistent ==
    {[Consistent EXCEPT !.Mprior = @ + 1],
     [Consistent EXCEPT !.parameterizer_strings = @ - 1],
     [Consistent EXCEPT !.datacoder_strings = @ + 1],
     [Consistent EXCEPT !.periods = @ + 1],
     [Consistent EXCEPT !.ztop = @ - 1]}

\* Theory(parameterizer=load_paramfile(s)[0], datacoder=makedatacoder(d))
Theory(parameterizer_string, datacoder_string) ==
    [parameterizer |-> parameterizer_string, datacoder |-> datacoder_string]

\* the forward solver fails on a model that holds a value which is not positive
Theory_raises(theory, m) == \E k \in DOMAIN m : m[k] <= 0

\* theory(m=m): the nper encoded data the theory computes from m
Theory_call(theory, m) == [i \in 1..nper |-> <<"data", theory, m, i - 1>>]

\* theory.frechet_derivatives(m=m): an array of nper rows and nz columns
Theory_frechet_derivatives(theory, m) ==
    [i \in 1..nper |-> [j \in 1..nz |-> <<"fd", theory, m, i - 1, j - 1>>]]

Job(a, b, c) == <<a, b, c>>

zip(a, b) ==
    [k \in 1..(IF Len(a) <= Len(b) THEN Len(a) ELSE Len(b)) |-> <<a[k], b[k]>>]

\* list.reshape((ny, nx)) and M.reshape((ny, nx, nz))
reshape2(s) == [iy \in 1..ny |-> [jx \in 1..nx |-> s[(iy - 1) * nx + jx]]]
reshape3(s) ==
    [iy \in 1..ny |-> [jx \in 1..nx |->
        [k \in 1..nz |-> s[((iy - 1) * nx + (jx - 1)) * nz + k]]]]

\* array.flat[:] of an array of two dimensions
flat(a) ==
    [k \in 1..(Len(a) * Len(a[1])) |->
        a[((k - 1) \div Len(a[1])) + 1][((k - 1) % Len(a[1])) + 1]]

\* ---- the statements of the module
\* Mprior = np.load("Mprior.npy").reshape((ny, nx, nz)) and the loads that follow
ModuleLoad ==
    /\ gpc = "load"
    /\ IF loaded.Mprior # ny * nx * nz
       THEN gpc' = "raised" /\ ret' = [op |-> "raise", from |-> "load"]
       ELSE gpc' = "start" /\ ret' = ret
    /\ UNCHANGED <<seen, ny, nx, nz, nper, loaded, forwardop, Mglobal, ma, theorys,
                   Data, rows, cols, dats>>
    /\ UNCHANGED <<pvars, mvars>>

\* ---- __init__
job_generator_init ==
    LET pairs == zip(parameterizer_strings, datacoder_strings)
    IN  [k \in DOMAIN pairs |-> Job(k - 1, pairs[k][1], pairs[k][2])]

job_handler_init(nnode, parameterizer_string, datacoder_string) ==
    <<nnode, Theory(parameterizer_string, datacoder_string)>>

\* for jobid, (nnode, theory), _, _ in ma: theorys.append(theory)
init_loop_insert(list, answer) == <<answer[2]>> \o list
init_loop_body(list, answer) == Append(list, answer[2])

\* ---- __call__
\* the jobs in the order the loops over jx, then iy, would yield them
job_generator_call_jx_outer(M3) ==
    [k \in 1..(ny * nx) |->
        LET jx == (k - 1) \div ny
            iy == (k - 1) % ny
            nnode == iy * nx + jx
        IN  Job(nnode, forwardop.theorys[iy + 1][jx + 1], M3[iy + 1][jx + 1])]

\* the jobs in the order the loops over iy, then jx, yield them
job_generator_call(M3) ==
    [k \in 1..(ny * nx) |->
        LET iy == (k - 1) \div nx
            jx == (k - 1) % nx
            nnode == iy * nx + jx
        IN  Job(nnode, forwardop.theorys[iy + 1][jx + 1], M3[iy + 1][jx + 1])]

\* the handler with the failure of the theory caught and no data returned
job_handler_call_caught(nnode, theory, m) ==
    IF Theory_raises(theory, m) THEN <<nnode, <<>> >>
    ELSE <<nnode, Theory_call(theory, m)>>

\* the handler returns (nnode, data), or leaves by the exception of the theory
job_handler_call(nnode, theory, m) ==
    IF Theory_raises(theory, m) THEN <<"Exception">>
    ELSE <<nnode, Theory_call(theory, m)>>

\* for nnode, (nnode, data), _, _ in ma: Data.append(data)
call_loop_body(list, answer) == Append(list, answer[2])

\* ---- frechet_derivatives
\* the jobs in the order the loops over jx, then iy, would yield them
job_generator_fd_jx_outer(M3) ==
    [k \in 1..(ny * nx) |->
        LET jx == (k - 1) \div ny
            iy == (k - 1) % ny
            nnode == iy * nx + jx
        IN  Job(nnode, forwardop.theorys[iy + 1][jx + 1], M3[iy + 1][jx + 1])]

job_generator_fd(M3) ==
    [k \in 1..(ny * nx) |->
        LET iy == (k - 1) \div nx
            jx == (k - 1) % nx
            nnode == iy * nx + jx
        IN  Job(nnode, forwardop.theorys[iy + 1][jx + 1], M3[iy + 1][jx + 1])]

job_handler_fd(nnode, theory, m) ==
    IF Theory_raises(theory, m) THEN <<"Exception">>
    ELSE <<nnode, Theory_frechet_derivatives(theory, m)>>

\* _cols, _rows = np.meshgrid(np.arange(nz), np.arange(nper)), flattened
\* (meshgrid_rows_mod: the row index running as fast as the column index)
meshgrid_cols == [k \in 1..(nper * nz) |-> (k - 1) % nz]
meshgrid_rows_mod == [k \in 1..(nper * nz) |-> (k - 1) % nper]
meshgrid_rows == [k \in 1..(nper * nz) |-> (k - 1) \div nz]

\* list(nnode * nz + _cols.flat[:]) and list(nnode * nper + _rows.flat[:])
block_cols_per(nnode) == [k \in DOMAIN meshgrid_cols |-> nnode * nper + meshgrid_cols[k]]
block_cols(nnode) == [k \in DOMAIN meshgrid_cols |-> nnode * nz + meshgrid_cols[k]]
block_rows(nnode) == [k \in DOMAIN meshgrid_rows |-> nnode * nper + meshgrid_rows[k]]

\* sp.csc_matrix((dats, (rows, cols)), shape=shape): the stored entries
csc_matrix(data, i, j, shape) ==
    [shape |-> shape, entries |-> {<<i[k], j[k], data[k]>> : k \in DOMAIN data}]

\* ---- MapSync(job_handler, job_generator()): the jobs, the answers of those a
\* worker has finished, and the number of answers handed to the loop so far
MapSync(handler, jobs) ==
    [handler |-> handler, jobs |-> jobs, results |-> <<>>, next |-> 0]

Handle(handler, job) ==
    CASE handler = "init" -> job_handler_init(job[1], job[2], job[3])
      [] handler = "call" -> job_handler_call(job[1], job[2], job[3])
      [] handler = "fd" -> job_handler_fd(job[1], job[2], job[3])

\* the handler left the job by an exception
Raised(answer) == Len(answer) = 1

\* the answer the iterator yields next is there
Ready(m) ==
    /\ m.next < Len(m.jobs) /\ (m.next + 1) \in DOMAIN m.results
    /\ ~Raised(m.results[m.next + 1])

\* the iterator raises the exception of a job that failed
Failed(m) == \E k \in DOMAIN m.results : Raised(m.results[k])

\* every answer has been yielded
Exhausted(m) == m.next = Len(m.jobs)

\* a worker finishes one of the Nworker jobs that follow the last one yielded
MapSyncWork ==
    /\ gpc \in {"init", "call", "fd"}
    /\ \E k \in DOMAIN ma.jobs :
          /\ k \notin DOMAIN ma.results
          /\ k <= ma.next + Nworker
          /\ ma' = [ma EXCEPT !.results = (k :> Handle(ma.handler, ma.jobs[k])) @@ @]
    /\ UNCHANGED <<seen, ny, nx, nz, nper, loaded, gpc, forwardop, Mglobal, theorys, Data,
                   rows, cols, dats, ret>>
    /\ UNCHANGED <<pvars, mvars>>

\* the method a result is of
Method(r) == IF r.op = "raise" THEN r.from ELSE r.op

\* history: the argument and the result of the first call that ended, and whether
\* a call of the other method or on another argument has ended since
Remember(r) ==
    IF seen = <<>> THEN <<[M |-> Mglobal, ret |-> r, between |-> FALSE]>>
    ELSE IF seen[1].M = Mglobal /\ Method(seen[1].ret) = Method(r) THEN seen
    ELSE <<[seen[1] EXCEPT !.between = TRUE]>>

\* global models of ny * nx * nz elements: two the solver accepts on every node,
\* and those with a zero in the slice of the first or of the last node
Models ==
    {[k \in 1..(ny * nx * nz) |-> k], [k \in 1..(ny * nx * nz) |-> 100 - k]}
        \cup {[k \in 1..(ny * nx * nz) |-> IF k = n * nz + 1 THEN 0 ELSE k] :
                 n \in {0, ny * nx - 1}}

InitEnter ==
    /\ gpc = "start"
    /\ gpc' = "init"
    /\ theorys' = <<>>
    /\ ma' = MapSync("init", job_generator_init)
    /\ UNCHANGED <<seen, ny, nx, nz, nper, loaded, forwardop, Mglobal, Data, rows, cols, dats, ret>>
    /\ UNCHANGED <<pvars, mvars>>

InitLoop ==
    /\ gpc = "init"
    /\ Ready(ma)
    /\ theorys' = init_loop_body(theorys, ma.results[ma.next + 1])
    /\ ma' = [ma EXCEPT !.next = @ + 1]
    /\ UNCHANGED <<seen, ny, nx, nz, nper, loaded, gpc, forwardop, Mglobal, Data, rows, cols,
                   dats, ret>>
    /\ UNCHANGED <<pvars, mvars>>

\* self.theorys = np.array(theorys, dtype=object).reshape((ny, nx))
InitExit ==
    /\ gpc = "init"
    /\ Exhausted(ma)
    /\ Len(theorys) = ny * nx
    /\ forwardop' = [theorys |-> reshape2(theorys)]
    /\ gpc' = "ready"
    /\ ma' = <<>>
    /\ theorys' = <<>>
    /\ ret' = [op |-> "init"]
    /\ UNCHANGED <<seen, ny, nx, nz, nper, loaded, Mglobal, Data, rows, cols, dats>>
    /\ UNCHANGED <<pvars, mvars>>

\* the reshape of a list that has not ny * nx elements raises ValueError
InitReshapeRaise ==
    /\ gpc = "init"
    /\ Exhausted(ma)
    /\ Len(theorys) # ny * nx
    /\ gpc' = "raised"
    /\ ret' = [op |-> "raise", from |-> "init"]
    /\ ma' = <<>>
    /\ theorys' = <<>>
    /\ UNCHANGED <<seen, ny, nx, nz, nper, loaded, forwardop, Mglobal, Data, rows,
                   cols, dats>>
    /\ UNCHANGED <<pvars, mvars>>

CallEnter ==
    /\ gpc = "ready"
    /\ \E m \in Models :
          /\ Mglobal' = m
          /\ ma' = MapSync("call", job_generator_call(reshape3(m)))
    /\ gpc' = "call"
    /\ Data' = <<>>
    /\ ret' = NoCall
    /\ UNCHANGED <<seen, ny, nx, nz, nper, loaded, forwardop, theorys, rows, cols, dats>>
    /\ UNCHANGED <<pvars, mvars>>

CallLoop ==
    /\ gpc = "call"
    /\ Ready(ma)
    /\ Data' = call_loop_body(Data, ma.results[ma.next + 1])
    /\ ma' = [ma EXCEPT !.next = @ + 1]
    /\ UNCHANGED <<seen, ny, nx, nz, nper, loaded, gpc, forwardop, Mglobal, theorys, rows, cols,
                   dats, ret>>
    /\ UNCHANGED <<pvars, mvars>>

\* __call__ leaving the Theory grid turned end to end behind it
CallExit_turning ==
    /\ gpc = "call"
    /\ Exhausted(ma)
    /\ ret' = [op |-> "call", value |-> hstack(Data)]
    /\ gpc' = "ready"
    /\ ma' = <<>>
    /\ Data' = <<>>
    /\ seen' = Remember(ret')
    /\ forwardop' = [theorys |-> [iy \in 1..ny |-> [jx \in 1..nx |->
                         forwardop.theorys[ny + 1 - iy][nx + 1 - jx]]]]
    /\ UNCHANGED <<ny, nx, nz, nper, loaded, Mglobal, theorys, rows, cols, dats>>
    /\ UNCHANGED <<pvars, mvars>>

\* return np.hstack(Data)
CallExit ==
    /\ gpc = "call"
    /\ Exhausted(ma)
    /\ ret' = [op |-> "call", value |-> hstack(Data)]
    /\ gpc' = "ready"
    /\ ma' = <<>>
    /\ Data' = <<>>
    /\ seen' = Remember(ret')
    /\ UNCHANGED <<ny, nx, nz, nper, loaded, forwardop, Mglobal, theorys, rows, cols, dats>>
    /\ UNCHANGED <<pvars, mvars>>

\* the exception leaves the with block and __call__: nothing is returned
CallRaise ==
    /\ gpc = "call"
    /\ Failed(ma)
    /\ ret' = [op |-> "raise", from |-> "call"]
    /\ gpc' = "ready"
    /\ ma' = <<>>
    /\ Data' = <<>>
    /\ seen' = Remember(ret')
    /\ UNCHANGED <<ny, nx, nz, nper, loaded, forwardop, Mglobal, theorys, rows, cols, dats>>
    /\ UNCHANGED <<pvars, mvars>>

FrechetEnter ==
    /\ gpc = "ready"
    /\ \E m \in Models :
          /\ Mglobal' = m
          /\ ma' = MapSync("fd", job_generator_fd(reshape3(m)))
    /\ gpc' = "fd"
    /\ rows' = <<>> /\ cols' = <<>> /\ dats' = <<>>
    /\ ret' = NoCall
    /\ UNCHANGED <<seen, ny, nx, nz, nper, loaded, forwardop, theorys, Data>>
    /\ UNCHANGED <<pvars, mvars>>

FrechetLoop ==
    /\ gpc = "fd"
    /\ Ready(ma)
    /\ LET nnode == ma.results[ma.next + 1][1]
           fd == ma.results[ma.next + 1][2]
       IN  /\ cols' = cols \o block_cols(nnode)
           /\ rows' = rows \o block_rows(nnode)
           /\ dats' = dats \o flat(fd)
    /\ ma' = [ma EXCEPT !.next = @ + 1]
    /\ UNCHANGED <<seen, ny, nx, nz, nper, loaded, gpc, forwardop, Mglobal, theorys, Data, ret>>
    /\ UNCHANGED <<pvars, mvars>>

\* G = sp.csc_matrix(...); return G
FrechetExit ==
    /\ gpc = "fd"
    /\ Exhausted(ma)
    /\ ret' = [op |-> "fd",
               value |-> csc_matrix(dats, rows, cols,
                                    <<ny * nx * nper, ny * nx * nz>>)]
    /\ gpc' = "ready"
    /\ ma' = <<>>
    /\ rows' = <<>> /\ cols' = <<>> /\ dats' = <<>>
    /\ seen' = Remember(ret')
    /\ UNCHANGED <<ny, nx, nz, nper, loaded, forwardop, Mglobal, theorys, Data>>
    /\ UNCHANGED <<pvars, mvars>>

FrechetRaise ==
    /\ gpc = "fd"
    /\ Failed(ma)
    /\ ret' = [op |-> "raise", from |-> "fd"]
    /\ gpc' = "ready"
    /\ ma' = <<>>
    /\ rows' = <<>> /\ cols' = <<>> /\ dats' = <<>>
    /\ seen' = Remember(ret')
    /\ UNCHANGED <<ny, nx, nz, nper, loaded, forwardop, Mglobal, theorys, Data>>
    /\ UNCHANGED <<pvars, mvars>>

GInit ==
    /\ ny \in 1..MaxNy /\ nx \in 1..MaxNx /\ nz \in 1..MaxNz /\ nper \in 1..MaxNper
    /\ loaded = Consistent
    /\ gpc = "start"
    /\ forwardop = <<>> /\ Mglobal = <<>> /\ ma = <<>>
    /\ theorys = <<>> /\ Data = <<>>
    /\ rows = <<>> /\ cols = <<>> /\ dats = <<>>
    /\ ret = NoCall /\ seen = <<>>
    /\ PIdle /\ MIdle

GNext ==
    \/ MapSyncWork
    \/ InitEnter
    \/ InitLoop
    \/ InitExit
    \/ CallEnter
    \/ CallLoop
    \/ CallExit
    \/ CallRaise
    \/ FrechetEnter
    \/ FrechetLoop
    \/ FrechetExit
    \/ FrechetRaise

SpecG == GInit /\ [][GNext]_vars

\* the module loaded from arrays that need not agree, and the operator built
LInit ==
    /\ ny \in 1..MaxNy /\ nx \in 1..MaxNx /\ nz \in 1..MaxNz /\ nper \in 1..MaxNper
    /\ loaded \in {Consistent} \cup Inconsistent
    /\ gpc = "load"
    /\ forwardop = <<>> /\ Mglobal = <<>> /\ ma = <<>>
    /\ theorys = <<>> /\ Data = <<>>
    /\ rows = <<>> /\ cols = <<>> /\ dats = <<>>
    /\ ret = NoCall /\ seen = <<>>
    /\ PIdle /\ MIdle

LNext ==
    \/ ModuleLoad
    \/ MapSyncWork
    \/ InitEnter
    \/ InitLoop
    \/ InitExit
    \/ InitReshapeRaise

SpecL == LInit /\ [][LNext]_vars

\* ------------------------------------------------------- HerrMet --manage
authorized_keys == <<"-stats", "-plot", "-delbad", "-delchains", "-inline">>

\* the rootnames of the model; HERRMETRUNFILE.format(rootname=rootname) names
\* one run file per rootname, so that a run file is denoted by its rootname
ROOTNAMES == {<<"_HerrMet_", n>> : n \in 1..MaxRootnames}

\* glob.glob(default_rootnames): the rootnames on disk, in the order the file
\* system lists them
glob ==
    LET D == {r \in ROOTNAMES : fs[r] # "none"}
    IN  {g \in [1..Cardinality(D) -> D] : \A i, j \in DOMAIN g : g[i] = g[j] => i = j}

\* the loop that excludes the rootnames with no run file, and the same loop
\* without the test os.path.exists(runfile)
existing_all(rootnames0) == rootnames0
existing(rootnames0) ==
    LET os_path_exists(r) == fs[r] = "run"
    IN  SelectSeq(rootnames0, os_path_exists)

\* the with block on the run file of the current rootname is left, and the
\* for loop goes on or ends
NextFile ==
    /\ nfile' = nfile + 1
    /\ mpc' = IF nfile + 1 < Len(rootnames) THEN "stats" ELSE "done"

\* the first loop: the keys of argv, the private ones skipped
ManageKeys ==
    /\ mpc = "start"
    /\ IF \E k \in DOMAIN argv \ {"main", "_keyorder"} : k \notin Range(authorized_keys)
       THEN mpc' = "raised"
       ELSE mpc' = "select"
    /\ UNCHANGED <<argv, fs, rootnames, nfile, mlog>>
    /\ UNCHANGED <<pvars, gvars>>

\* rootnames0, its assertion, the exclusion loop and the second assertion
ManageSelect ==
    /\ mpc = "select"
    /\ \E rootnames0 \in (IF argv.main = <<>> THEN glob ELSE {argv.main}) :
          IF Len(rootnames0) = 0 \/ Len(existing(rootnames0)) = 0
          THEN mpc' = "raised" /\ rootnames' = rootnames
          ELSE mpc' = "summary" /\ rootnames' = existing(rootnames0)
    /\ UNCHANGED <<argv, fs, nfile, mlog>>
    /\ UNCHANGED <<pvars, gvars>>

\* one turn of the loop "summarize all files"
ManageSummarize ==
    /\ mpc = "summary"
    /\ nfile < Len(rootnames)
    /\ LET rootname == rootnames[nfile + 1]
       IN  mlog' = mlog \o <<<<"open", rootname>>, <<"summary", rootname>>>>
    /\ nfile' = nfile + 1
    /\ UNCHANGED <<argv, fs, mpc, rootnames>>
    /\ UNCHANGED <<pvars, gvars>>

\* after the summaries: showfun, and the test "more options"
ManageOptions ==
    /\ mpc = "summary"
    /\ nfile = Len(rootnames)
    /\ IF \E opt \in {"-stats", "-delbad", "-delchains", "-plot"} : opt \in DOMAIN argv
       THEN mpc' = "stats"
       ELSE mpc' = "done"
    /\ nfile' = 0
    /\ UNCHANGED <<argv, fs, rootnames, mlog>>
    /\ UNCHANGED <<pvars, gvars>>

\* with RunFile(runfile, verbose=verbose) as rundb: if "-stats" ...
ManageStats ==
    /\ mpc = "stats"
    /\ LET rootname == rootnames[nfile + 1]
       IN  mlog' = mlog \o <<<<"open", rootname>>>>
                       \o (IF "-stats" \in DOMAIN argv THEN <<<<"stats", rootname>>>>
                           ELSE <<>>)
    /\ mpc' = "delbad"
    /\ UNCHANGED <<argv, fs, rootnames, nfile>>
    /\ UNCHANGED <<pvars, gvars>>

\* if "-delbad" ...: rundb.del_bad(llkmin=argv['-delbad'][0]); the subscript
\* raises when the option came without a value
ManageDelBad ==
    /\ mpc = "delbad"
    /\ IF "-delbad" \notin DOMAIN argv
       THEN mpc' = "delchains" /\ mlog' = mlog
       ELSE IF argv["-delbad"] = <<>>
       THEN mpc' = "raised" /\ mlog' = mlog
       ELSE /\ mpc' = "delchains"
            /\ mlog' = Append(mlog, <<"del_bad", rootnames[nfile + 1]>>)
    /\ UNCHANGED <<argv, fs, rootnames, nfile>>
    /\ UNCHANGED <<pvars, gvars>>

\* if "-delchains" ...: rundb.del_chain(chainid=argv['-delchains'])
ManageDelChains ==
    /\ mpc = "delchains"
    /\ mlog' = IF "-delchains" \in DOMAIN argv
               THEN Append(mlog, <<"del_chain", rootnames[nfile + 1]>>)
               ELSE mlog
    /\ mpc' = "plot"
    /\ UNCHANGED <<argv, fs, rootnames, nfile>>
    /\ UNCHANGED <<pvars, gvars>>

\* if "-plot" ...: the selection, which is None when the file holds no chain,
\* the figure and the stats file; then the end of the with block
ManagePlot ==
    /\ mpc = "plot"
    /\ IF "-plot" \notin DOMAIN argv
       THEN mlog' = mlog /\ NextFile
       ELSE \E s \in {"None", "chains"} :
               IF s = "None"
               THEN mpc' = "raised" /\ nfile' = nfile /\ mlog' = mlog
               ELSE mlog' = Append(mlog, <<"plot", rootnames[nfile + 1]>>) /\ NextFile
    /\ UNCHANGED <<argv, fs, rootnames>>
    /\ UNCHANGED <<pvars, gvars>>

\* the command lines: up to MaxRootnames rootnames, repeated or not, any of
\* the four operations, with or without -inline or a key that is not an
\* option of manage, -delbad with or without its value; and the disks
MInit ==
    /\ \E main \in UNION {[1..n -> ROOTNAMES] : n \in 0..MaxRootnames},
          ops \in SUBSET {"-stats", "-plot", "-delbad", "-delchains"},
          more \in SUBSET {"-inline", "-sltz"},
          llkmin \in {<<>>, <<"-25">>} :
          argv = [k \in {"main"} \cup ops \cup more |->
                    IF k = "main" THEN main
                    ELSE IF k = "-delbad" THEN llkmin
                    ELSE <<>>]
    /\ fs \in [ROOTNAMES -> {"none", "dir", "run"}]
    /\ mpc = "start"
    /\ rootnames = <<>> /\ nfile = 0 /\ mlog = <<>>
    /\ PIdle /\ GIdle

MNext ==
    \/ ManageKeys
    \/ ManageSelect
    \/ ManageSummarize
    \/ ManageOptions
    \/ ManageStats
    \/ ManageDelBad
    \/ ManageDelChains
    \/ ManagePlot

SpecM == MInit /\ [][MNext]_vars

\* ------------------------------------------------------------ properties
\* the rows of the file that are locked, and those that are free
LockedRows(F) == {r \in DOMAIN F.data.VINF : F.data.VINF[r] = F.data.VSUP[r]}
FreeRows(F) == {r \in DOMAIN F.data.VINF : F.data.VINF[r] < F.data.VSUP[r]}

\* every entry of m lies strictly between its bounds
StrictlyInside(o, m) ==
    \A i \in DOMAIN m : o.MINF[i] < m[i] /\ m[i] < o.MSUP[i]

\* the value of a piecewise-constant profile at depth d
At(dm, d) == interp(dm, <<d>>)[1]

\* low <= mean <= high at every depth of D
Brackets(low, mean, high, D) ==
    \A d \in D : At(low, d) <= At(mean, d) /\ At(mean, d) <= At(high, d)

\* the depths at which a profile of boundaries() or of meanmodel() changes
Depths(b, mm) == Range(b.vslow.z) \cup Range(mm.vs.z)

\* C1 as the specification states it: for every variant, forward(inverse(m))
\* is m whenever every entry of m lies strictly inside its bounds.
C1_RoundTrip ==
    (pc = "built" /\ last.op = "call" /\ StrictlyInside(self, last.m))
        => last.ret = last.m

\* C1, as the code has it: forward(inverse(m)) has the length of m; for the
\* variants mZVSVPRH, mZVSPRzRHvp, mZVSPRzRHz and mZVSVPvsRHvp it is m exactly;
\* for mZVSPRRH every depth, Vs and density entry is the entry of m, and every
\* Vp/Vs entry is m's within the two roundings of VP = PR * VS and PR = VP / VS
\* (relative error at most 2u + u^2, u = 2^-Prec).
C1_RoundTripUpToRatioRounding ==
    (pc = "built" /\ last.op = "call" /\ StrictlyInside(self, last.m))
        => /\ Len(last.ret) = Len(last.m)
           /\ \A i \in DOMAIN last.m :
                 IF cls = "mZVSPRRH" /\ keys(cls, self)[i][1] = "PR"
                 THEN Abs(last.ret[i] - last.m[i]) * 2 ^ (2 * Prec)
                          <= Abs(last.m[i]) * (2 ^ (Prec + 1) + 1)
                 ELSE last.ret[i] = last.m[i]

\* C1: forward has been applied to inverse(m) for an m strictly inside its
\* bounds that holds a free Vp/Vs ratio and a free entry of another kind, and
\* has not returned m.
C1_Witness ==
    /\ pc = "built" /\ last.op = "call" /\ cls = "mZVSPRRH"
    /\ StrictlyInside(self, last.m)
    /\ \E i, j \in DOMAIN last.m :
          /\ keys(cls, self)[i][1] = "PR"
          /\ keys(cls, self)[j][1] # "PR"
    /\ last.ret # last.m

\* C2 as the specification states it: keys(), frechet_deltas() and MMEAN have
\* the same length, for every variant and every valid file, locked rows or not.
C2_SameLengths ==
    (pc = "built" /\ last.op = "frechet_deltas")
        => /\ Len(last.ret) = Len(keys(cls, self))
           /\ Len(keys(cls, self)) = Len(self.MMEAN)

\* C2: frechet_deltas() has returned for a file with a locked row and a free row
C2_Witness ==
    /\ pc = "built" /\ last.op = "frechet_deltas"
    /\ LockedRows(A) # {} /\ FreeRows(A) # {}

\* the entry of the depth model that a row of the file fixes
ModelEntry(dm, key, v) ==
    CASE key[1] = "-Z" -> dm.ZTOP[key[2] + 1] = -v
      [] key[1] = "VS" -> dm.VS[key[2] + 1] = v
      [] key[1] = "VP" -> dm.VP[key[2] + 1] = v
      [] key[1] = "RH" -> dm.RH[key[2] + 1] = v
      [] key[1] = "PR" -> dm.VP[key[2] + 1] = FMul(v, dm.VS[key[2] + 1])

\* C3: a locked row (VINF = VSUP) has no entry in keys() and none in the output
\* of forward(), each of which has one entry per free row; and for every m the
\* full array that inverse(m) rebuilds holds VINF at the row's position, as does
\* the depth model it returns (for a locked ratio: Vp = VINF * Vs).
C3_Locking ==
    /\ (pc = "built" /\ last.op = "keys")
          => /\ Len(last.ret) = Cardinality(FreeRows(A))
             /\ \A r \in LockedRows(A) : A.data.KEY[r] \notin Range(last.ret)
             /\ \A r \in FreeRows(A) : A.data.KEY[r] \in Range(last.ret)
    /\ (pc = "built" /\ last.op = "call")
          => Len(last.ret) = Cardinality(FreeRows(A))
    /\ (pc = "built" /\ last.op = "inv")
          => \A r \in LockedRows(A) :
                /\ FullArray(self, last.m)[r] = A.data.VINF[r]
                /\ ModelEntry(last.ret, A.data.KEY[r], A.data.VINF[r])

\* C3: inverse has been applied to a vector other than the mean, for a file
\* with a locked row and a free row
C3_Witness ==
    /\ pc = "built" /\ last.op = "inv"
    /\ LockedRows(A) # {} /\ FreeRows(A) # {}
    /\ last.m # self.MMEAN

\* C4 as the specification states it: at every depth the profiles of
\* boundaries() bracket the mean model for Vs, Vp and density.
C4_BoundariesBracketMean ==
    (pc = "built" /\ last.op = "boundaries")
        => LET b == last.ret
               mm == meanmodel(cls, self)
           IN  /\ Brackets(b.vslow, mm.vs, b.vshgh, Depths(b, mm))
               /\ Brackets(b.vplow, mm.vp, b.vphgh, Depths(b, mm))
               /\ Brackets(b.rhlow, mm.rh, b.rhhgh, Depths(b, mm))

\* C4: boundaries() has returned for a file of three layers whose interfaces
\* are all free
C4_Witness ==
    /\ pc = "built" /\ last.op = "boundaries"
    /\ self.NLAYER = 3
    /\ \A r \in DOMAIN A.data.KEY : A.data.KEY[r][1] = "-Z" => r \in FreeRows(A)

\* C5 as the specification states it: at every depth the ratio profiles of
\* boundaries() bracket the ratio of the mean model, PRmean = VPmean / VSmean.
C5_RatioBracketsMean ==
    (pc = "built" /\ last.op = "boundaries")
        => LET b == last.ret
               mm == meanmodel(cls, self)
           IN  Brackets(b.prlow, mm.pr, b.prhgh, Depths(b, mm))

\* C5: boundaries() has returned for the variant that owns Vp and Vs, with a
\* free Vs or a free Vp
C5_Witness ==
    /\ pc = "built" /\ last.op = "boundaries" /\ cls = "mZVSVPRH"
    /\ \E r \in FreeRows(A) : A.data.KEY[r][1] \in {"VS", "VP"}

\* a file check_parameter_file must refuse
Refused(F) ==
    \/ "NLAYER" \notin DOMAIN F.metadata
    \/ "TYPE" \notin DOMAIN F.metadata
    \/ \E r, q \in DOMAIN F.data.KEY : r # q /\ F.data.KEY[r] = F.data.KEY[q]
    \/ \E r \in DOMAIN F.data.VINF : F.data.VINF[r] > F.data.VSUP[r]

\* C9: for a file without NLAYER or TYPE, with a repeated KEY or with a row
\* whose VINF exceeds VSUP, the constructor of every variant leaves by the
\* ValueError of check_parameter_file: the TYPE assertion is never reached, no
\* attribute is ever assigned, and no object is obtained.
C9_RefusedBeforeVariantStep ==
    Refused(A)
        => /\ pc \in {"new", "raised"}
           /\ pc = "raised" => exc # <<>> /\ exc[1] = "ValueError"
           /\ DOMAIN self = {}
           /\ last = NoCall

\* C9: the constructor has raised on a file whose only defect is a row with
\* VINF above VSUP
C9_Witness ==
    /\ pc = "raised" /\ exc = ValueError("VSUP cannot be lower than VINF")
    /\ "NLAYER" \in DOMAIN A.metadata /\ "TYPE" \in DOMAIN A.metadata
    /\ Len(A.data.KEY) = Cardinality(Range(A.data.KEY))

\* C10: for a file that check_parameter_file accepts and whose TYPE is not the
\* tag of the class, the constructor of each of the five classes leaves by an
\* AssertionError at its TYPE assertion: no attribute is read from the file and
\* no object is obtained (assertions enabled, as in a run without -O).
C10_TypeMismatchAsserts ==
    (~Refused(A) /\ A.metadata.TYPE # cls)
        => /\ pc \in {"new", "checked", "base", "raised"}
           /\ pc = "raised" => exc = AssertionError
           /\ pc \in {"base", "raised"} => self = BaseAttributes
           /\ last = NoCall

\* C10: the constructor of the class of relations Vp(Vs), density(Vp) has
\* raised an AssertionError on an accepted file of another TYPE
C10_Witness ==
    /\ pc = "raised" /\ exc = AssertionError
    /\ ~Refused(A) /\ cls = "mZVSVPvsRHvp" /\ A.metadata.TYPE = "mZVSPRRH"

\* the Theory built from the strings of node n, and M[n div nx, n mod nx, :]
TheoryOfNode(n) == Theory(parameterizer_strings[n + 1], datacoder_strings[n + 1])
ModelOfNode(n) == [k \in 1..nz |-> Mglobal[n * nz + k]]

\* the nodes, in row-major order
Nodes == 0..(ny * nx - 1)

\* C6: __call__ on a global model of ny*nx*nz elements returns ny*nx*nper data,
\* of which the slice [n*nper, (n+1)*nper) is what the Theory of the grid cell
\* (n div nx, n mod nx) computes from M[n div nx, n mod nx, :], for every node
\* n; that Theory is the one built from the strings of node n.
C6_EvaluateSlices ==
    (gpc = "ready" /\ ret.op = "call")
        => /\ Len(Mglobal) = ny * nx * nz
           /\ Len(ret.value) = ny * nx * nper
           /\ \A n \in Nodes :
                 /\ forwardop.theorys[(n \div nx) + 1][(n % nx) + 1] = TheoryOfNode(n)
                 /\ Slice(ret.value, n * nper, (n + 1) * nper)
                       = Theory_call(forwardop.theorys[(n \div nx) + 1][(n % nx) + 1],
                                     ModelOfNode(n))

\* C6: __call__ has returned on a grid of two rows and two columns, with more
\* than one datum and more than one model element per node
C6_Witness ==
    /\ gpc = "ready" /\ ret.op = "call"
    /\ ny = 2 /\ nx = 2 /\ nper = 2 /\ nz = 2

\* C7: frechet_derivatives(M) returns a matrix of shape (ny*nx*nper, ny*nx*nz);
\* every stored entry (row, col) has row div nper = col div nz; and the entry at
\* (n*nper+i, n*nz+j) is the element fd[i, j] of the Jacobian of node n, the
\* only entry stored at that place.
C7_BlockDiagonal ==
    (gpc = "ready" /\ ret.op = "fd")
        => /\ ret.value.shape = <<ny * nx * nper, ny * nx * nz>>
           /\ \A e \in ret.value.entries :
                 /\ e[1] \in 0..(ny * nx * nper - 1)
                 /\ e[2] \in 0..(ny * nx * nz - 1)
                 /\ e[1] \div nper = e[2] \div nz
           /\ \A n \in Nodes : \A i \in 0..(nper - 1) : \A j \in 0..(nz - 1) :
                 {e \in ret.value.entries : e[1] = n * nper + i /\ e[2] = n * nz + j}
                    = {<<n * nper + i, n * nz + j,
                         Theory_frechet_derivatives(TheoryOfNode(n),
                                                    ModelOfNode(n))[i + 1][j + 1]>>}

\* C7: frechet_derivatives has returned on a grid of several nodes whose
\* Jacobians have two columns and one row
C7_Witness ==
    /\ gpc = "ready" /\ ret.op = "fd"
    /\ ny * nx > 1 /\ nz = 2 /\ nper = 1
    /\ ret.value.entries # {}

\* the list the loop of __init__ builds from answers that arrive in this order
RECURSIVE Collected(_)
Collected(answers) ==
    IF answers = <<>> THEN <<>>
    ELSE init_loop_body(Collected(SubSeq(answers, 1, Len(answers) - 1)),
                        answers[Len(answers)])

\* the answers of the jobs of __init__, in job order
InitAnswers ==
    [k \in DOMAIN job_generator_init |->
        job_handler_init(job_generator_init[k][1], job_generator_init[k][2],
                         job_generator_init[k][3])]

VPvsUnsound(expr) ==
    \/ RelationRaises(expr)
    \/ ~RelationReturnsFloat(expr)
    \/ RelationCall(expr, E(8)) <= 0
RHvpUnsound(expr) ==
    \/ RelationRaises(expr)
    \/ ~RelationReturnsFloat(expr)
    \/ RelationCall(expr, E(8)) < E(8)

\* C11: for an accepted file of TYPE mZVSVPvsRHvp, the constructor of that class
\* builds the object exactly when VPvs at 1.0 returns a float > 0 and RHvp at 1.0
\* returns a float >= 1; otherwise it leaves by a ValueError that names the
\* relation which failed first and carries the text of the underlying failure.
C11_RelationValidation ==
    (cls = "mZVSVPvsRHvp" /\ ~Refused(A) /\ A.metadata.TYPE = cls)
        => LET v == A.metadata.VPvs
               r == A.metadata.RHvp
           IN  /\ pc = "built" => ~VPvsUnsound(v) /\ ~RHvpUnsound(r)
               /\ pc = "raised"
                     => /\ VPvsUnsound(v) \/ RHvpUnsound(r)
                        /\ Len(exc) = 3 /\ exc[1] = "ValueError"
                        /\ exc[2] = IF VPvsUnsound(v)
                                    THEN "could not execute VP=f(VS), "
                                    ELSE "could not execute RH=f(VP), "
                        /\ exc[3] # <<>>
                        /\ RelationRaises(IF VPvsUnsound(v) THEN v ELSE r)
                              => exc[3] = <<"float division by zero">>
               /\ (pc = "typed" /\ ~VPvsUnsound(v) /\ ~RHvpUnsound(r))
                     => ENABLED SubclassInit

\* C11: the constructor has raised because RHvp at 1.0 returned a float below 1,
\* VPvs being sound
C11_Witness ==
    /\ pc = "raised" /\ cls = "mZVSVPvsRHvp" /\ A \in RelationFiles
    /\ ~VPvsUnsound(A.metadata.VPvs)
    /\ A.metadata.RHvp = "lambda VP: 0.5 * VP"
    /\ exc = <<"ValueError", "could not execute RH=f(VP), ",
               <<"RH=f(VP) must return numbers >= 1">> >>

\* the theory of some node fails on its slice of the global model
SomeNodeFails == \E n \in Nodes : Theory_raises(TheoryOfNode(n), ModelOfNode(n))

\* C12: a call of __call__ or frechet_derivatives on a model for which the theory
\* of some node fails ends by that failure and returns nothing; a call that
\* returns has the data of all ny * nx nodes (ny * nx * nper values, or as many
\* blocks of nper * nz entries); and the loop never goes past a job that failed.
C12_FailFast ==
    /\ (gpc = "ready" /\ ret.op \in {"call", "fd", "raise"})
          => /\ ret.op = "raise" <=> SomeNodeFails
             /\ ret.op = "call" => Len(ret.value) = ny * nx * nper
             /\ ret.op = "fd"
                   => Cardinality(ret.value.entries) = ny * nx * nper * nz
    /\ gpc \in {"call", "fd"}
          => /\ \A k \in 1..ma.next : ~Raised(ma.results[k])
             /\ gpc = "call" => Len(Data) = ma.next
             /\ gpc = "fd" => Len(dats) = ma.next * nper * nz

\* C12: a call on a grid of several nodes has ended by the failure of the last
\* node, after the data of an earlier node had been collected
C12_Witness ==
    /\ gpc = "ready" /\ ret.op = "raise" /\ ny * nx > 1
    /\ ~Theory_raises(TheoryOfNode(0), ModelOfNode(0))
    /\ Theory_raises(TheoryOfNode(ny * nx - 1), ModelOfNode(ny * nx - 1))

\* C13: once built, the Theory grid self.theorys is the same after every step of
\* every call, the argument M of a running call is not altered, and a call of a
\* method on an argument on which that method was called before ends as it did
\* then, whatever was called in between.
C13_Stateless ==
    /\ [](gpc = "ready" /\ seen # <<>> /\ ret.op # "init"
            /\ seen[1].M = Mglobal /\ Method(seen[1].ret) = Method(ret)
              => ret = seen[1].ret)
    /\ [][/\ gpc \in {"ready", "call", "fd"} => forwardop' = forwardop
          /\ gpc \in {"call", "fd"} => Mglobal' = Mglobal]_vars

\* C13: the method and the argument of the first call were called again after a
\* different call had ended, on a grid of several nodes
C13_Witness ==
    /\ gpc = "ready" /\ ny * nx > 1
    /\ seen # <<>> /\ seen[1].between
    /\ ret.op \in {"call", "fd"}
    /\ seen[1].M = Mglobal /\ seen[1].ret.op = ret.op
    /\ forwardop.theorys = reshape2([n \in 1..(ny * nx) |-> TheoryOfNode(n - 1)])

\* a loaded array has not the length that ny, nx, nz and nper declare
Mismatch == loaded # Consistent

\* C14 (as stated): when a loaded array has not the declared length, the
\* statements of the module end in a failure: __init__ is never entered, so that
\* no Theory is built and no job is dispatched.
C14_ValidatedBeforeUse ==
    Mismatch => gpc = "load" \/ (gpc = "raised" /\ ret.from = "load")

\* C14: a ForwardOperator has been constructed although one of the loaded arrays
\* has not the declared length
C14_Witness == Mismatch /\ gpc = "ready" /\ ret.op = "init"

\* the i-th free row of a file, counted from 1
FreeRow(F, i) ==
    CHOOSE r \in FreeRows(F) : Cardinality({q \in FreeRows(F) : q <= r}) = i

\* the lengths, the mask, the midpoint and the half-range of C15; twice a float
\* and the sum or difference of two bounds are compared as exact numbers
AttributesAgree(o, F) ==
    LET n == Cardinality(FreeRows(F))
        VINF == F.data.VINF
        VSUP == F.data.VSUP
    IN  /\ Len(o.MMEAN) = n /\ Len(o.MINF) = n /\ Len(o.MSUP) = n /\ Len(o.MSTD) = n
        /\ n = Cardinality({r \in DOMAIN o.IDXNOTLOCK : o.IDXNOTLOCK[r]})
        /\ \A r \in DOMAIN VINF : o.IDXNOTLOCK[r] <=> VINF[r] < VSUP[r]
        /\ Len(o.MDEFAULT) = Len(VINF)
        /\ \A r \in DOMAIN VINF :
              /\ VINF[r] <= o.MDEFAULT[r] /\ o.MDEFAULT[r] <= VSUP[r]
              /\ Abs(2 * o.MDEFAULT[r] - (VINF[r] + VSUP[r])) <= VSUP[r] - VINF[r]
        /\ \A i \in 1..n :
              /\ o.MINF[i] = VINF[FreeRow(F, i)] /\ o.MSUP[i] = VSUP[FreeRow(F, i)]
              /\ o.MMEAN[i] = o.MDEFAULT[FreeRow(F, i)]
              /\ 2 * o.MSTD[i] = VSUP[FreeRow(F, i)] - VINF[FreeRow(F, i)]

\* C15 (as stated): after the construction of any variant the four vectors have
\* one entry per true entry of IDXNOTLOCK, IDXNOTLOCK is true exactly where
\* VINF < VSUP, MDEFAULT is the midpoint, MSTD the half-range of the free rows,
\* and MINF < MMEAN < MSUP entry by entry.
C15_MeanStrictlyInside ==
    pc = "built" => AttributesAgree(self, A) /\ StrictlyInside(self, self.MMEAN)

\* C15 (amended): the same, with MINF <= MMEAN <= MSUP entry by entry, and
\* MINF < MMEAN < MSUP at every free row whose midpoint is a float.
C15_MeanInside ==
    pc = "built"
        => /\ AttributesAgree(self, A)
           /\ \A i \in DOMAIN self.MMEAN :
                 /\ self.MINF[i] <= self.MMEAN[i] /\ self.MMEAN[i] <= self.MSUP[i]
                 /\ 2 * self.MMEAN[i] = self.MINF[i] + self.MSUP[i]
                       => self.MINF[i] < self.MMEAN[i] /\ self.MMEAN[i] < self.MSUP[i]

\* C15: an object built from a file with locked rows and with free rows, one of
\* which has a mean equal to its lower bound
C15_Witness ==
    /\ pc = "built"
    /\ LockedRows(A) # {} /\ FreeRows(A) # {}
    /\ \E i \in DOMAIN self.MMEAN : self.MMEAN[i] = self.MINF[i]

\* x is the decimal a/b up to the rounding of two float operations
Near(x, a, b) == Abs(b * x - a * Unit) * 2 ^ (Prec - 2) <= a * Unit

\* what the scenario of C16 has in common with what the code returns: three free
\* parameters, keys() = (-Z1, VS0, VS1), and inv(MMEAN) with ZTOP = [0, 1.0],
\* VS = [1.5, 1.5], RH = [2.2, 2.2] and VP = [vp, vp], vp the decimal a/b
Scenario(a, b) ==
    (A = ScenarioFile /\ pc = "built")
        => /\ Len(self.MMEAN) = 3
           /\ last.op = "keys"
                 => last.ret = <<Key("-Z", 1), Key("VS", 0), Key("VS", 1)>>
           /\ (last.op = "inv" /\ last.m = self.MMEAN)
                 => /\ last.ret.ZTOP = <<0, E(8)>>
                    /\ last.ret.VS = <<E(12), E(12)>>
                    /\ last.ret.RH = <<Fl(11 * Unit, 5), Fl(11 * Unit, 5)>>
                    /\ Len(last.ret.VP) = 2
                    /\ \A i \in 1..2 : Near(last.ret.VP[i], a, b)

\* C16 (as stated): in the scenario inverse(MMEAN) returns VP = [3.6, 3.6]
C16_ScenarioVp36 == Scenario(18, 5)

\* C16 (amended): in the scenario inverse(MMEAN) returns VP = PR * VS =
\* 1.8 * 1.5 = [2.7, 2.7]
C16_ScenarioVp27 == Scenario(27, 10)

\* C16: inv(MMEAN) has returned for the file of the scenario
C16_Witness ==
    /\ A = ScenarioFile /\ pc = "built"
    /\ last.op = "inv" /\ last.m = self.MMEAN

\* C17: for a file of the variant's TYPE in which every row has VINF = VSUP, the
\* constructor of every variant does not raise; once it has returned, the
\* warning is the one line printed by it, the four vectors and keys() are empty,
\* and inv of the empty vector returns NLAYER layers with ZTOP[0] = 0 and, for
\* every row of the file, the value of that row.
C17_AllLocked ==
    (~Refused(A) /\ A.metadata.TYPE = cls /\ FreeRows(A) = {})
        => /\ pc # "raised" /\ exc = <<>>
           /\ pc = "built"
                 => /\ stdout # <<>>
                    /\ stdout[1] = "Warning : all parameters are locked"
                    /\ \A k \in 2..Len(stdout) : stdout[k] = BoundariesNotice(cls)[1]
                    /\ self.MMEAN = <<>> /\ self.MINF = <<>>
                    /\ self.MSUP = <<>> /\ self.MSTD = <<>>
                    /\ last.op = "keys" => last.ret = <<>>
                    /\ last.op = "inv"
                          => /\ last.m = <<>>
                             /\ Len(last.ret.ZTOP) = A.metadata.NLAYER
                             /\ Len(last.ret.VS) = A.metadata.NLAYER
                             /\ Len(last.ret.VP) = A.metadata.NLAYER
                             /\ Len(last.ret.RH) = A.metadata.NLAYER
                             /\ last.ret.ZTOP[1] = 0
                             /\ \A r \in DOMAIN A.data.KEY :
                                   ModelEntry(last.ret, A.data.KEY[r], A.data.VINF[r])

\* C17: inv of the empty vector has returned for a file of several layers in
\* which every row is locked
C17_Witness ==
    /\ pc = "built" /\ FreeRows(A) = {} /\ A.metadata.NLAYER > 1
    /\ last.op = "inv" /\ last.m = <<>>

\* the step of a physical type
StepOf(o, kind) ==
    CASE kind = "-Z" -> o.dz
      [] kind = "VS" -> o.dvs
      [] kind = "VP" -> o.dvp
      [] kind = "PR" -> o.dpr
      [] kind = "RH" -> o.drh

\* C18 (as stated): for every variant and every valid file, frechet_deltas()[i]
\* is the step of the physical type of keys()[i], for every index i of keys().
C18_StepsAligned ==
    (pc = "built" /\ last.op = "frechet_deltas")
        => \A i \in DOMAIN keys(cls, self) :
              /\ i \in DOMAIN last.ret
              /\ last.ret[i] = StepOf(self, keys(cls, self)[i][1])

\* C18: frechet_deltas() has returned for an object of type mZVSVPvsRHvp of
\* several layers whose interface depths are all locked and whose VS rows are
\* all free, and its first step is dz while the first key is VS0
C18_Witness ==
    /\ pc = "built" /\ cls = "mZVSVPvsRHvp" /\ last.op = "frechet_deltas"
    /\ self.NLAYER > 1
    /\ \A r \in DOMAIN A.data.KEY : A.data.KEY[r][1] = "-Z" <=> r \in LockedRows(A)
    /\ keys(cls, self)[1] = Key("VS", 0)
    /\ last.ret[1] = self.dz /\ self.dz # self.dvs

\* C19 (as stated): for every variant, every accepted file and every m with
\* MINF <= m <= MSUP, inv(m) returns four arrays of NLAYER entries with
\* ZTOP[0] = 0 and ZTOP[1] < ZTOP[2] < ...
C19_ZtopIncreasing ==
    (pc = "built" /\ last.op = "inv"
        /\ \A i \in DOMAIN last.m : self.MINF[i] <= last.m[i] /\ last.m[i] <= self.MSUP[i])
        => /\ Len(last.ret.ZTOP) = self.NLAYER /\ Len(last.ret.VP) = self.NLAYER
           /\ Len(last.ret.VS) = self.NLAYER /\ Len(last.ret.RH) = self.NLAYER
           /\ last.ret.ZTOP[1] = 0
           /\ \A i \in 2..(self.NLAYER - 1) : last.ret.ZTOP[i] < last.ret.ZTOP[i + 1]

\* C19: inv has returned, for a vector within the bounds of a file of three
\* layers, a model whose second interface is above the first
C19_Witness ==
    /\ pc = "built" /\ last.op = "inv" /\ self.NLAYER = 3
    /\ \A i \in DOMAIN last.m : self.MINF[i] <= last.m[i] /\ last.m[i] <= self.MSUP[i]
    /\ last.ret.ZTOP[3] < last.ret.ZTOP[2]

\* the Theory of the grid cell (iy, jx), and the part of the global model that
\* M.reshape((ny, nx, nz)) has at [iy, jx, :]
TheoryOfCell(iy, jx) == Theory(<<"parameterizer", iy, jx>>, <<"datacoder", iy, jx>>)
ModelOfCell(iy, jx) == [k \in 1..nz |-> Mglobal[(iy * nx + jx) * nz + k]]

Increasing(expr) == expr # "lambda VP: 3. - 0.25 * VP"

\* the smaller and the larger of two numbers
Min2(x, y) == IF x <= y THEN x ELSE y
Max2(x, y) == IF x >= y THEN x ELSE y

\* C21: boundaries() of mZVSVPvsRHvp returns eight profiles on the sorted union
\* of the interface depths of inv(MSUP) and inv(MINF); at every depth of it vslow
\* is the smaller of the Vs of inv(MINF) read on either set of interfaces and
\* vshgh the larger of the Vs of inv(MSUP); vplow = VPvs(vslow),
\* vphgh = VPvs(vshgh), rhlow = RHvp(vplow), rhhgh = RHvp(vphgh),
\* prlow = vplow / vslow, prhgh = vphgh / vshgh; and vplow <= vphgh wherever VPvs
\* increases, rhlow <= rhhgh wherever RHvp increases as well.
C21_RelationsThroughEnvelope ==
    (pc = "built" /\ cls = "mZVSVPvsRHvp" /\ last.op = "boundaries")
        => LET b == last.ret
               lo == inv(cls, self, self.MINF)
               hi == inv(cls, self, self.MSUP)
               z == b.vslow.z
           IN  /\ z = SortedUnique(hi.ZTOP \o lo.ZTOP)
               /\ \A p \in {b.vplow, b.vphgh, b.vshgh, b.rhlow, b.rhhgh, b.prlow, b.prhgh} :
                     p.z = z /\ Len(p.values) = Len(z)
               /\ Len(b.vslow.values) = Len(z)
               /\ \A k \in DOMAIN z :
                     /\ b.vslow.values[k] = Min2(At(depthmodel1D(hi.ZTOP, lo.VS), z[k]),
                                                 At(depthmodel1D(lo.ZTOP, lo.VS), z[k]))
                     /\ b.vshgh.values[k] = Max2(At(depthmodel1D(hi.ZTOP, hi.VS), z[k]),
                                                 At(depthmodel1D(lo.ZTOP, hi.VS), z[k]))
                     /\ b.vslow.values[k] <= b.vshgh.values[k]
                     /\ b.vplow.values[k] = RelationCall(self.VPvs, b.vslow.values[k])
                     /\ b.vphgh.values[k] = RelationCall(self.VPvs, b.vshgh.values[k])
                     /\ b.rhlow.values[k] = RelationCall(self.RHvp, b.vplow.values[k])
                     /\ b.rhhgh.values[k] = RelationCall(self.RHvp, b.vphgh.values[k])
                     /\ b.prlow.values[k] = FDiv(b.vplow.values[k], b.vslow.values[k])
                     /\ b.prhgh.values[k] = FDiv(b.vphgh.values[k], b.vshgh.values[k])
                     /\ Increasing(self.VPvs)
                           => b.vplow.values[k] <= b.vphgh.values[k]
                     /\ (Increasing(self.VPvs) /\ Increasing(self.RHvp))
                           => b.rhlow.values[k] <= b.rhhgh.values[k]

\* C21: boundaries() has returned for an object of type mZVSVPvsRHvp of three
\* layers with free interfaces, and the Vp envelopes differ at some depth
C21_Witness ==
    /\ pc = "built" /\ cls = "mZVSVPvsRHvp" /\ last.op = "boundaries"
    /\ self.NLAYER = 3 /\ Len(last.ret.vslow.z) > 3
    /\ \E k \in DOMAIN last.ret.vplow.values :
          last.ret.vplow.values[k] < last.ret.vphgh.values[k]

\* the structure of the object built from the description of a node: every
\* interface row holds -ztop[i] twice and is locked, every VS row is free with
\* the prior velocity strictly between its bounds, the free parameters are the
\* len(ztop) velocities and keys() names them VS0, VS1, ... in order
NodeStructure(o, F, ztop, vs) ==
    LET n == Len(ztop)
    IN  /\ o.NLAYER = n
        /\ \A i \in 1..(n - 1) :
              /\ F.data.KEY[i] = Key("-Z", i)
              /\ F.data.VINF[i] = -ztop[i + 1] /\ F.data.VSUP[i] = -ztop[i + 1]
              /\ ~o.IDXNOTLOCK[i] /\ o.MDEFAULT[i] = -ztop[i + 1]
        /\ \A k \in 1..n :
              /\ F.data.KEY[n - 1 + k] = Key("VS", k - 1)
              /\ o.IDXNOTLOCK[n - 1 + k]
              /\ o.MINF[k] = F.data.VINF[n - 1 + k] /\ o.MSUP[k] = F.data.VSUP[n - 1 + k]
              /\ o.MINF[k] < vs[k] /\ vs[k] < o.MSUP[k]
        /\ Len(o.IDXNOTLOCK) = 2 * n - 1
        /\ Len(o.MMEAN) = n /\ Len(o.MINF) = n /\ Len(o.MSUP) = n
        /\ keys(cls, o) = KeyList("VS", 0, n)

\* the jobs of which F is the description
JobsOf(F) == {j \in PriorJobs : Len(j[1]) = Len(j[2]) /\ F = get_parameterizers(j[1], j[2])}

\* C22 as the specification states it: the object built from the description of
\* a node has its interfaces locked at -ztop[i] and its len(ztop) velocities
\* free, keys() is (VS0, ..., VS{nz-1}), and MMEAN is equal to the prior
\* velocities Mprior[iy, jx, :] the description was made from.
C22_MeanIsPrior ==
    pc = "built" =>
        \A j \in JobsOf(A) : NodeStructure(self, A, j[1], j[2]) /\ self.MMEAN = j[2]

\* C22 (amended): the same structure, with MMEAN equal to the prior velocities
\* up to the rounding of vs - h, vs + h and of their sum: each entry is within
\* one part in 2^(Prec-1) of the prior velocity, and equal to it when the two
\* bounds and their sum are computed without rounding.
C22_MeanNearPrior ==
    pc = "built" =>
        \A j \in JobsOf(A) :
            /\ NodeStructure(self, A, j[1], j[2])
            /\ \A k \in DOMAIN j[2] :
                  /\ Abs(self.MMEAN[k] - j[2][k]) * 2 ^ (Prec - 1) <= j[2][k]
                  /\ (/\ self.MSUP[k] - j[2][k] = j[2][k] - self.MINF[k]
                      /\ FAdd(self.MINF[k], self.MSUP[k]) = self.MINF[k] + self.MSUP[k])
                        => self.MMEAN[k] = j[2][k]

\* C22: an object has been built from the description of a node of MaxNz layers
\* and keys() has returned on it
C22_Witness ==
    /\ pc = "built" /\ last.op = "keys"
    /\ \E j \in JobsOf(A) : Len(j[1]) = MaxNz /\ self.MMEAN = j[2]

\* the object as the constructor leaves it
Constructed == RelationAttributes(cls, A) @@ FileAttributes(A) @@ BaseAttributes

\* C23: once built, the object is what the constructor left; no call of
\* __call__, inv, keys, frechet_deltas, meanmodel or boundaries changes NLAYER,
\* IDXNOTLOCK, MDEFAULT, MMEAN, MINF, MSUP or MSTD or any other attribute, and
\* what inv(m) returns is a function of the constructed object and of m alone,
\* the same whenever the same m is given, whatever was called before.
C23_Immutable ==
    /\ [](pc = "built"
            => /\ self = Constructed
               /\ last.op = "inv" => last.ret = inv(cls, Constructed, last.m))
    /\ [][pc = "built"
            => /\ pc' = "built"
               /\ \A f \in {"NLAYER", "IDXNOTLOCK", "MDEFAULT", "MMEAN", "MINF",
                             "MSUP", "MSTD"} : self'[f] = self[f]
               /\ DOMAIN self' = DOMAIN self
               /\ (last.op = "inv" /\ last'.op = "inv" /\ last'.m = last.m)
                     => last'.ret = last.ret]_vars

\* C23: __call__ has returned on the model of an inv that followed a call of
\* boundaries() on an object with free parameters
C23_Witness ==
    /\ pc = "built" /\ last.op = "call"
    /\ Len(self.MMEAN) > 0
    /\ Len(stdout) > Len(LockWarning(A))

\* C24: in frechet_derivatives, after the results of k nodes have been
\* consumed, rows, cols and dats each hold exactly k * nper * nz elements, the
\* k-th block of rows and cols is the set of the nper * nz places of the block
\* of node k on the diagonal, and no place (row, col) occurs twice; when the
\* loop ends the three lists hold ny * nx * nper * nz elements, and so does the
\* matrix returned, one per place.
C24_TripletCount ==
    /\ gpc = "fd"
          => /\ Len(rows) = ma.next * nper * nz
             /\ Len(cols) = ma.next * nper * nz
             /\ Len(dats) = ma.next * nper * nz
             /\ \A a, b \in DOMAIN rows :
                   (rows[a] = rows[b] /\ cols[a] = cols[b]) => a = b
             /\ \A k \in 0..(ma.next - 1) :
                   {<<rows[a], cols[a]>> :
                        a \in (k * nper * nz + 1)..((k + 1) * nper * nz)}
                     = {<<k * nper + i, k * nz + j>> :
                            i \in 0..(nper - 1), j \in 0..(nz - 1)}
             /\ Exhausted(ma) => Len(rows) = ny * nx * nper * nz
    /\ (gpc = "ready" /\ ret.op = "fd")
          => /\ Cardinality(ret.value.entries) = ny * nx * nper * nz
             /\ Cardinality({<<e[1], e[2]>> : e \in ret.value.entries})
                   = ny * nx * nper * nz

\* C24: the loop has consumed the results of two nodes and not yet all, the
\* Jacobian of a node having two rows and two columns
C24_Witness ==
    /\ gpc = "fd" /\ nper = 2 /\ nz = 2
    /\ ma.next = 2 /\ ma.next < Len(ma.jobs)
    /\ Len(rows) = 8

\* a key of the command line is not an option of manage
Unauthorized ==
    \E k \in DOMAIN argv \ {"main", "_keyorder"} : k \notin Range(authorized_keys)

\* the rootnames the command line names, those of the disk when it names none
Named == IF argv.main = <<>> THEN {r \in ROOTNAMES : fs[r] # "none"} ELSE Range(argv.main)

\* the four operations in the order of the help text
Rank(kind) ==
    CASE kind = "stats" -> 1
      [] kind = "del_bad" -> 2
      [] kind = "del_chain" -> 3
      [] kind = "plot" -> 4
      [] OTHER -> 0

\* the places of the log where the run file of r underwent the operation
Events(kind, r) == {j \in DOMAIN mlog : mlog[j] = <<kind, r>>}

\* the order of the effects: nothing is done when a key is not authorized;
\* every named rootname with a run file has been summarized before the first
\* deletion; only run files that exist, of named rootnames, are touched; and
\* between two openings the operations follow the order stats, del_bad,
\* del_chain, plot, on the run file just opened
EffectsOrdered ==
    /\ Unauthorized => mlog = <<>> /\ mpc \in {"start", "raised"}
    /\ \A j \in DOMAIN mlog :
          /\ mlog[j][2] \in Named /\ fs[mlog[j][2]] = "run"
          /\ mlog[j][1] \in {"del_bad", "del_chain"}
                => \A r \in Named :
                      fs[r] = "run" => \E i \in 1..(j - 1) : mlog[i] = <<"summary", r>>
          /\ Rank(mlog[j][1]) > 0
                => \E i \in 1..(j - 1) :
                      /\ mlog[i] = <<"open", mlog[j][2]>>
                      /\ \A k \in (i + 1)..(j - 1) :
                            /\ mlog[k][1] # "open"
                            /\ Rank(mlog[k][1]) < Rank(mlog[j][1])

\* how many times s holds r
Count(s, r) == Cardinality({i \in DOMAIN s : s[i] = r})

\* C25 as the specification states it: the effects are ordered as above, and
\* each of the four operations runs at most once per run file.
C25_OncePerRunFile ==
    mpc # "idle"
        => /\ EffectsOrdered
           /\ \A r \in ROOTNAMES : \A kind \in {"stats", "del_bad", "del_chain", "plot"} :
                 Cardinality(Events(kind, r)) <= 1

\* C25 (amended): the effects are ordered as above, and each of the four
\* operations runs at most once each time the rootname of the run file occurs
\* in the list of rootnames: once when the rootnames are those of the disk or
\* are named once each, and again for a rootname that is named again.
C25_OncePerRootname ==
    mpc # "idle"
        => /\ EffectsOrdered
           /\ \A r \in ROOTNAMES : \A kind \in {"stats", "del_bad", "del_chain", "plot"} :
                 Cardinality(Events(kind, r))
                    <= (IF argv.main = <<>> THEN 1 ELSE Count(argv.main, r))

\* C25: manage() has ended after the four operations on a run file, the command
\* line naming also a rootname that has no run file
C25_Witness ==
    /\ mpc = "done"
    /\ {"-stats", "-plot", "-delbad", "-delchains"} \subseteq DOMAIN argv
    /\ \E r \in Range(argv.main) : fs[r] # "run"
    /\ \E r \in Range(argv.main) : Events("plot", r) # {} /\ Events("del_bad", r) # {}

====
